---- MODULE Spec2Model ----
(***************************************************************************)
(* A model of the QUIC streamer's connection admission                     *)
(* (streamer/src/nonblocking/quic.rs): the ConnectionTable with its        *)
(* eviction primitives, the open-connection tracker, and the admission     *)
(* pipeline run_server -> setup_connection -> handle_connection.           *)
(*                                                                         *)
(* SpecTable drives one ConnectionTable through its public operations the  *)
(* way the unit tests do.  Spec drives the whole admission pipeline with   *)
(* the staked and the unstaked table for every small configuration;        *)
(* SpecFull drives it for configurations whose tables hold four            *)
(* connections, the fewest for which the capacity gate has slack.          *)
(* SpecAdmit admits unstaked peers in a row against a ceiling of 100,      *)
(* SpecStake calls the two stake-to-allowance functions and the stake      *)
(* classification of setup_connection, and SpecStream drives the stream    *)
(* handler of an admitted connection with the hand-off queue and           *)
(* packet_batch_sender behind it.  SpecServer adds the accept loop and the *)
(* exit flag, SpecThrottle the stream throttling of one connection against *)
(* a clock, SpecCancel two attempts of one peer up to eviction and         *)
(* cancellation of a streaming handler, and SpecBatcher drives             *)
(* packet_batch_sender the way test_packet_batcher does.  SpecKey looks at *)
(* the keys the tables are indexed by, SpecDisabled at configurations with *)
(* no room for unstaked peers, SpecLocks runs the pipeline lock by lock,   *)
(* SpecCoalesce runs the batcher against a clock, and SpecExit has the     *)
(* server's owner store the exit flag.                                     *)
(***************************************************************************)
EXTENDS Integers, Sequences, FiniteSets, Bags, TLC

VARIABLES
    max_connections_per_peer,   \* QuicServerParams.max_connections_per_peer
    max_staked_connections,     \* QuicServerParams.max_staked_connections
    max_unstaked_connections,   \* QuicServerParams.max_unstaked_connections
    open_connections,           \* StreamerStats.open_connections
    table,                      \* the ConnectionTable driven by SpecTable
    last_op,                    \* the last operation or pipeline step and its result
    staked_connection_table,    \* run_server's staked table
    unstaked_connection_table,  \* run_server's unstaked table
    staked_lock,                \* holder of the staked table's Mutex (0: free)
    conn,                       \* per connection attempt: the task's position and its locals
    clients,                    \* the pubkeys of the peers that connect (NoPubkey: no certificate)
    packet_queue,               \* the bounded channel from the stream handlers to packet_batch_sender
    packet_batch,               \* packet_batch_sender's batch in the making
    total_streams,              \* StreamerStats.total_streams
    total_connections,          \* StreamerStats.total_connections
    exit,                       \* the server's exit flag
    accept_loop,                \* run_server's loop: "select" (waiting) or "returned"
    batcher_test,               \* test_packet_batcher's locals (running: the test drives the batcher)
    stream_load_ema             \* the streams StakedStreamLoadEMA allows a peer per throttling interval

vars == << max_connections_per_peer, max_staked_connections, max_unstaked_connections,
           open_connections, table, last_op, staked_connection_table,
           unstaked_connection_table, staked_lock, conn, clients,
           packet_queue, packet_batch, total_streams, total_connections,
           exit, accept_loop,
                 batcher_test, stream_load_ema >>

\* ------------------------------------------------------------------ bounds

\* Largest max_connections_per_peer tried.
MaxPerPeer == 2
\* SpecTable stops adding once the table holds this many entries.
MaxTableSize == 3

\* Connection attempts the accept loop receives.
MaxConns == 3
\* Largest max_staked_connections and max_unstaked_connections tried.
MaxStaked == 1
MaxUnstaked == 2

\* The streams the peers open in all.
MaxStreams == 2

\* The values the inputs are drawn from.
Keys == {"k1", "k2"}
Ports == {0, 1}
Timestamps == {0, 1}
Stakes == {1, 2}

\* setup_connection's PRUNE_RANDOM_SAMPLE_SIZE
PRUNE_RANDOM_SAMPLE_SIZE == 2

\* ------------------------------------------------------------ small helpers

Min2(a, b) == IF a <= b THEN a ELSE b

\* usize::saturating_sub
saturating_sub(a, b) == IF a >= b THEN a - b ELSE 0

RECURSIVE SumSeq(_)
SumSeq(s) == IF s = << >> THEN 0 ELSE Head(s) + SumSeq(Tail(s))

\* Option<u64> as an integer: None sorts below every Some(_).
None == -1

\* ------------------------------------------------------ ConnectionPeerType

Unstaked == [staked |-> FALSE, stake |-> 0]
Staked(s) == [staked |-> TRUE, stake |-> s]
\* The peer types SpecTable hands to try_add_connection (as test_prune_table_random).
TablePeerTypes == {Staked(s) : s \in Stakes}

\* ConnectionEntry::stake
EntryStake(e) == IF e.peer_type.staked THEN e.peer_type.stake ELSE 0

\* A ConnectionEntry.  connection is the quinn connection's stable_id, or
\* NoConnection for the entries the unit tests make with connection: None.
NoConnection == 0
ConnectionEntry(port, last_update, peer_type, connection) ==
    [port |-> port, last_update |-> last_update, peer_type |-> peer_type,
     connection |-> connection]

\* ---------------------------------------------------------------- f64
\* The f64 values the stake arithmetic goes through, computed exactly.  A
\* non-negative value is kept in fixed point as a sequence of limbs of
\* LimbBits bits, least significant first, the first F64FractionLimbs of
\* them below the binary point.  Every operation computes the exact result
\* and rounds it to the 53 significant bits of an f64, ties to even.  The
\* values stay far from the subnormal and the infinite ends of the format,
\* and the integers that enter stay below 2^20.

\* f64::MANTISSA_DIGITS
F64_MANTISSA_DIGITS == 53

LimbBits == 10
Pow2(n) == << 1, 2, 4, 8, 16, 32, 64, 128, 256, 512, 1024 >>[n + 1]
LimbBase == Pow2(LimbBits)

\* The limbs kept below the binary point.
F64FractionLimbs == 8
F64FractionBits == LimbBits * F64FractionLimbs

RECURSIVE LimbsOf(_)
LimbsOf(n) == IF n = 0 THEN << >> ELSE << n % LimbBase >> \o LimbsOf(n \div LimbBase)

RECURSIVE IntOf(_)
IntOf(x) == IF x = << >> THEN 0 ELSE Head(x) + LimbBase * IntOf(Tail(x))

Limb(x, j) == IF j >= 1 /\ j <= Len(x) THEN x[j] ELSE 0

\* Bit i of x, bit 1 the least significant.
Bit(x, i) ==
    IF i < 1 THEN 0
    ELSE (Limb(x, (i - 1) \div LimbBits + 1) \div Pow2((i - 1) % LimbBits)) % 2

\* The position of the highest set bit, 0 for zero.
TopBit(x) ==
    IF \A j \in 1..Len(x) : x[j] = 0 THEN 0
    ELSE LET top == CHOOSE j \in 1..Len(x) :
                        x[j] # 0 /\ \A k \in (j + 1)..Len(x) : x[k] = 0
             b == CHOOSE k \in 1..LimbBits :
                        x[top] \div Pow2(k - 1) >= 1 /\ x[top] \div Pow2(k) = 0
         IN  (top - 1) * LimbBits + b

\* The limbs of the value whose bits 1..n are bits[1..n].
Pack(bits, n) ==
    [j \in 1..((n + LimbBits - 1) \div LimbBits) |->
        SumSeq([k \in 1..LimbBits |->
                   IF (j - 1) * LimbBits + k <= n
                   THEN bits[(j - 1) * LimbBits + k] * Pow2(k - 1) ELSE 0])]

\* Round to nearest, ties to even, at 53 significant bits.  sticky tells
\* that the exact value has more below the last bit of x.
RoundToF64(x, sticky) ==
    LET h == TopBit(x)
        cut == h - F64_MANTISSA_DIGITS
    IN  IF cut <= 0 THEN x
        ELSE LET rest == sticky \/ \E i \in 1..(cut - 1) : Bit(x, i) = 1
                 up == Bit(x, cut) = 1 /\ (rest \/ Bit(x, cut + 1) = 1)
                 \* the lowest clear bit of the part kept: the carry stops there
                 z == CHOOSE i \in (cut + 1)..(h + 1) :
                         /\ Bit(x, i) = 0
                         /\ \A j \in (cut + 1)..(i - 1) : Bit(x, j) = 1
             IN  Pack([i \in 1..(h + 1) |->
                          IF i <= cut THEN 0
                          ELSE IF ~up THEN Bit(x, i)
                          ELSE IF i < z THEN 0
                          ELSE IF i = z THEN 1
                          ELSE Bit(x, i)], h + 1)

\* u64 as f64 (exact below 2^53).
F64OfInt(n) == IF n = 0 THEN << >> ELSE [j \in 1..F64FractionLimbs |-> 0] \o LimbsOf(n)

\* The first k limbs of r / t below the binary point, and the remainder left.
RECURSIVE FractionLimbs(_, _, _)
FractionLimbs(r, t, k) ==
    IF k = 0 THEN [limbs |-> << >>, r |-> r]
    ELSE LET next == FractionLimbs((r * LimbBase) % t, t, k - 1)
         IN  [limbs |-> Append(next.limbs, (r * LimbBase) \div t), r |-> next.r]

\* n as f64 / t as f64
F64Div(n, t) ==
    LET f == FractionLimbs(n % t, t, F64FractionLimbs)
    IN  RoundToF64(f.limbs \o LimbsOf(n \div t), f.r # 0)

RECURSIVE MulCarry(_, _, _)
MulCarry(x, n, carry) ==
    IF x = << >> THEN LimbsOf(carry)
    ELSE LET v == Head(x) * n + carry
         IN  << v % LimbBase >> \o MulCarry(Tail(x), n, v \div LimbBase)

\* x * (n as f64)
F64MulInt(x, n) == RoundToF64(MulCarry(x, n, 0), FALSE)

RECURSIVE AddCarry(_, _, _, _)
AddCarry(x, y, j, carry) ==
    IF j > Len(x) /\ j > Len(y) THEN LimbsOf(carry)
    ELSE LET v == Limb(x, j) + Limb(y, j) + carry
         IN  << v % LimbBase >> \o AddCarry(x, y, j + 1, v \div LimbBase)

\* x - y for x >= y
RECURSIVE SubBorrow(_, _, _, _)
SubBorrow(x, y, j, borrow) ==
    IF j > Len(x) THEN << >>
    ELSE LET v == Limb(x, j) - Limb(y, j) - borrow
         IN  << v % LimbBase >> \o SubBorrow(x, y, j + 1, IF v < 0 THEN 1 ELSE 0)

RECURSIVE GeqFrom(_, _, _)
GeqFrom(x, y, j) ==
    IF j = 0 THEN TRUE
    ELSE IF Limb(x, j) # Limb(y, j) THEN Limb(x, j) > Limb(y, j)
    ELSE GeqFrom(x, y, j - 1)

\* A signed f64: x - y, and x + b for a signed b.
F64Sub(x, y) ==
    IF GeqFrom(x, y, IF Len(x) >= Len(y) THEN Len(x) ELSE Len(y))
    THEN [neg |-> FALSE, mag |-> RoundToF64(SubBorrow(x, y, 1, 0), FALSE)]
    ELSE [neg |-> TRUE, mag |-> RoundToF64(SubBorrow(y, x, 1, 0), FALSE)]

F64Add(x, b) ==
    IF b.neg THEN F64Sub(x, b.mag)
    ELSE [neg |-> FALSE, mag |-> RoundToF64(AddCarry(x, b.mag, 1, 0), FALSE)]

\* `as usize` / `as u64` of a non-negative f64: the fraction is cut off.
F64AsInt(x) == IntOf(SubSeq(x, F64FractionLimbs + 1, Len(x)))

\* f64::round followed by `as u64`: halves round away from zero, and a
\* negative value saturates to 0.
F64RoundAsInt(v) ==
    IF v.neg THEN 0 ELSE F64AsInt(v.mag) + Bit(v.mag, F64FractionBits)

\* A u64 wider than the integers of the model is a sequence of limbs as
\* well, least significant first.
ZeroLimbs(k) == [j \in 1..k |-> 0]
IsZero(x) == \A j \in 1..Len(x) : x[j] = 0
\* x >= y: the highest limb in which the two differ decides.
LimbsGeq(x0, y0) ==
    \E x \in {x0}, y \in {y0} :
        LET n == IF Len(x) >= Len(y) THEN Len(x) ELSE Len(y)
            differ == {j \in 1..n : Limb(x, j) # Limb(y, j)}
        IN  \/ differ = {}
            \/ \E top \in differ :
                  /\ \A k \in differ : k <= top
                  /\ Limb(x, top) > Limb(y, top)

\* The u64 m * 2^e + d.
U64(m, e, d) ==
    AddCarry(ZeroLimbs(e \div LimbBits) \o MulCarry(LimbsOf(m), Pow2(e % LimbBits), 0),
             LimbsOf(d), 1, 0)

\* u64 as f64: rounded to 53 significant bits from 2^53 on.
F64OfU64(n) ==
    IF IsZero(n) THEN << >> ELSE RoundToF64(ZeroLimbs(F64FractionLimbs) \o n, FALSE)

\* The largest h below 2^5 with (base + h * unit) * t <= r.
QuotientHalf(r, t, base, unit) ==
    CHOOSE h \in 0..(Pow2(LimbBits \div 2) - 1) :
        /\ LimbsGeq(r, MulCarry(t, base + h * unit, 0))
        /\ \/ h = Pow2(LimbBits \div 2) - 1
           \/ ~LimbsGeq(r, MulCarry(t, base + (h + 1) * unit, 0))

\* The largest digit q with q * t <= r, for r < LimbBase * t: its high half,
\* then its low half.
QuotientDigit(r, t) ==
    LET half == Pow2(LimbBits \div 2)
    IN  CHOOSE q \in {high * half + QuotientHalf(r, t, high * half, 1) :
                         high \in {QuotientHalf(r, t, 0, half)}} : TRUE

\* One step of the long division by t on the remainder cur: the digit of
\* the quotient and the remainder left.
DivStepOf(cur, t, digit) ==
    [digit |-> digit,
     r |-> SubSeq(SubBorrow(cur, MulCarry(t, digit, 0), 1, 0),
                  1, Min2(Len(cur), Len(t)))]

DivStep(cur0, t) ==
    CHOOSE s \in UNION {{DivStepOf(cur, t, digit) : digit \in {QuotientDigit(cur, t)}} :
                           cur \in {cur0}} : TRUE

\* Long division of the limbs x by t # 0, from the most significant limb
\* down: limb j is next, r the remainder and q the quotient of the limbs
\* above it.  The limbs of the quotient and the remainder.
RECURSIVE LongDiv(_, _, _, _, _)
LongDiv(x, t, j, r, q) ==
    IF j = 0 THEN [q |-> q, r |-> r]
    ELSE CHOOSE d \in {LongDiv(x, t, j - 1, s.r, << s.digit >> \o q) :
                           s \in {DivStep(<< x[j] >> \o r, t)}} : TRUE

\* The zero limbs at the low end of x # 0, and x without its zero limbs at
\* both ends.
LowZeros(x) == (CHOOSE j \in 1..Len(x) : x[j] # 0 /\ \A k \in 1..(j - 1) : x[k] = 0) - 1
Significant(x) ==
    SubSeq(x, LowZeros(x) + 1,
           CHOOSE j \in 1..Len(x) : x[j] # 0 /\ \A k \in (j + 1)..Len(x) : x[k] = 0)

\* The limbs of the quotient that are computed: the top one, and enough
\* below it for the 53 significant bits, the bit that rounds and one more.
QuotientLimbs == (F64_MANTISSA_DIGITS + 2 + LimbBits - 1) \div LimbBits + 1

\* The quotient d of the significant limbs put back at the binary point, e
\* limbs up; what falls below the limbs kept only tells the rounding that
\* it is there.
PlaceQuotient(d, e) ==
    IF e >= 0
    THEN RoundToF64(ZeroLimbs(e) \o d.q, ~IsZero(d.r))
    ELSE RoundToF64(SubSeq(d.q, 1 - e, Len(d.q)),
                    ~IsZero(d.r) \/ ~IsZero(SubSeq(d.q, 1, Min2(0 - e, Len(d.q)))))

\* x / y of two f64 values, y above zero: the quotient of the significant
\* limbs of the two.
F64DivF64(x0, y0) ==
    CHOOSE z \in
        {IF IsZero(x) THEN << >>
         ELSE LET k == Len(Significant(y)) + QuotientLimbs - 1 - Len(Significant(x))
              IN  CHOOSE v \in
                      {PlaceQuotient(d, F64FractionLimbs - k + LowZeros(x) - LowZeros(y)) :
                          d \in {LongDiv(D, Y, QuotientLimbs,
                                         SubSeq(D, QuotientLimbs + 1, Len(D)), << >>) :
                                     D \in {ZeroLimbs(k) \o Significant(x)},
                                     Y \in {Significant(y)}}} : TRUE :
            x \in {x0}, y \in {y0}} : TRUE

\* --------------------------------------------------------- ConnectionTable

\* ConnectionTable::new.  table is the IndexMap in its iteration order: a
\* sequence of [key, conns], conns the Vec<ConnectionEntry> of the key.
NewTable == [table |-> << >>, total_size |-> 0]

\* Position of key in the IndexMap, 0 when absent.
IndexOf(m, key) ==
    IF \E i \in 1..Len(m) : m[i].key = key
    THEN CHOOSE i \in 1..Len(m) : m[i].key = key
    ELSE 0

\* IndexMap::swap_remove_index: the last element takes the removed one's place.
swap_remove_index(m, i) ==
    [j \in 1..(Len(m) - 1) |-> IF j = i THEN m[Len(m)] ELSE m[j]]

\* Every entry of the table, as a sequence of per-key lengths, and their sum.
SumOfLens(m) == SumSeq([i \in 1..Len(m) |-> Len(m[i].conns)])

\* The closure taking max() for min(): a key is ranked by its newest entry.
NewestUpdate(conns) ==
    IF conns = << >> THEN None
    ELSE CHOOSE t \in {conns[i].last_update : i \in 1..Len(conns)} :
            \A i \in 1..Len(conns) : t >= conns[i].last_update

\* The closure `key` of prune_oldest: the minimum last_update of a key's
\* entries, None for an empty Vec.
OldestUpdate(conns) ==
    IF conns = << >> THEN None
    ELSE CHOOSE t \in {conns[i].last_update : i \in 1..Len(conns)} :
            \A i \in 1..Len(conns) : t <= conns[i].last_update

\* Iterator::min_by_key: the first of the minimal elements.
MinIndexByKey(keys) ==
    CHOOSE i \in 1..Len(keys) :
        /\ \A j \in 1..Len(keys) : keys[i] <= keys[j]
        /\ \A j \in 1..(i - 1) : keys[j] > keys[i]

\* The while loop of prune_oldest.
RECURSIVE PruneOldestLoop(_, _, _, _)
PruneOldestLoop(m, total_size, num_pruned, max_size) ==
    IF saturating_sub(total_size, num_pruned) > max_size /\ m # << >>
    THEN LET index == MinIndexByKey([i \in 1..Len(m) |-> OldestUpdate(m[i].conns)])
         IN  PruneOldestLoop(swap_remove_index(m, index), total_size,
                             num_pruned + Len(m[index].conns), max_size)
    ELSE [table |-> m, num_pruned |-> num_pruned]

\* prune_oldest whose loop stops one entry early (>= max_size + 1 taken for > max_size).
prune_oldest_stops_early(t, max_size) ==
    LET r == PruneOldestLoop(t.table, t.total_size, 0, max_size + 1)
    IN  [t |-> [table |-> r.table,
                total_size |-> saturating_sub(t.total_size, r.num_pruned)],
         ret |-> r.num_pruned]

\* prune_oldest returning the number of keys it removed.
prune_oldest_returns_keys(t, max_size) ==
    LET r == PruneOldestLoop(t.table, t.total_size, 0, max_size)
    IN  [t |-> [table |-> r.table,
                total_size |-> saturating_sub(t.total_size, r.num_pruned)],
         ret |-> Len(t.table) - Len(r.table)]

\* ConnectionTable::prune_oldest: the table after, and the value returned.
prune_oldest(t, max_size) ==
    LET r == PruneOldestLoop(t.table, t.total_size, 0, max_size)
    IN  [t |-> [table |-> r.table,
                total_size |-> saturating_sub(t.total_size, r.num_pruned)],
         ret |-> r.num_pruned]

\* The stake prune_random reads for a sampled index: that of the key's first
\* entry, None for an empty Vec.
FirstStake(conns) == IF conns = << >> THEN None ELSE EntryStake(conns[1])

\* prune_random that looks at the first sampled key only.
prune_random_first_sampled(t, samples, threshold_stake) ==
    LET m == t.table
        picked == IF samples = << >> THEN 0 ELSE samples[1]
        evict == picked # 0 /\ FirstStake(m[picked].conns) < threshold_stake
        num_pruned == IF evict THEN Len(m[picked].conns) ELSE 0
    IN  [t |-> [table |-> IF evict THEN swap_remove_index(m, picked) ELSE m,
                total_size |-> saturating_sub(t.total_size, num_pruned)],
         ret |-> num_pruned]

\* ConnectionTable::prune_random.  samples are the indices rng.gen_range
\* yields, in order (empty when the table is empty or sample_size is 0).
prune_random(t, samples, threshold_stake) ==
    LET m == t.table
        picked == IF samples = << >> THEN 0
                  ELSE samples[MinIndexByKey(
                           [i \in 1..Len(samples) |-> FirstStake(m[samples[i]].conns)])]
        evict == picked # 0 /\ FirstStake(m[picked].conns) < threshold_stake
        num_pruned == IF evict THEN Len(m[picked].conns) ELSE 0
    IN  [t |-> [table |-> IF evict THEN swap_remove_index(m, picked) ELSE m,
                total_size |-> saturating_sub(t.total_size, num_pruned)],
         ret |-> num_pruned]

\* The sample sequences prune_random can draw from a map of the given length.
Samples(len, sample_size) ==
    IF len = 0 \/ sample_size = 0 THEN {<< >>}
    ELSE [1..sample_size -> 1..len]

\* try_add_connection that keeps one slot of every key free
\* (len + 1 < max for len + 1 <= max).
try_add_connection_one_short(t, key, entry, max_per_peer) ==
    LET m0 == t.table
        m == IF IndexOf(m0, key) = 0
             THEN Append(m0, [key |-> key, conns |-> << >>])
             ELSE m0
        i == IndexOf(m, key)
    IN  IF Len(m[i].conns) + 1 < max_per_peer
        THEN [t |-> [table |-> [m EXCEPT ![i].conns = Append(@, entry)],
                     total_size |-> t.total_size + 1],
              added |-> TRUE]
        ELSE [t |-> [table |-> m, total_size |-> t.total_size],
              added |-> FALSE]

\* try_add_connection comparing the length before the push with the cap
\* (len <= max for len + 1 <= max).
try_add_connection_off_by_one(t, key, entry, max_per_peer) ==
    LET m0 == t.table
        m == IF IndexOf(m0, key) = 0
             THEN Append(m0, [key |-> key, conns |-> << >>])
             ELSE m0
        i == IndexOf(m, key)
    IN  IF Len(m[i].conns) <= max_per_peer
        THEN [t |-> [table |-> [m EXCEPT ![i].conns = Append(@, entry)],
                     total_size |-> t.total_size + 1],
              added |-> TRUE]
        ELSE [t |-> [table |-> m, total_size |-> t.total_size],
              added |-> FALSE]

\* try_add_connection that puts the refused connection in the place of the
\* key's newest entry.
try_add_connection_replaces(t, key, entry, max_per_peer) ==
    LET m0 == t.table
        m == IF IndexOf(m0, key) = 0
             THEN Append(m0, [key |-> key, conns |-> << >>])
             ELSE m0
        i == IndexOf(m, key)
        has_connection_capacity == Len(m[i].conns) + 1 <= max_per_peer
    IN  IF has_connection_capacity
        THEN [t |-> [table |-> [m EXCEPT ![i].conns = Append(@, entry)],
                     total_size |-> t.total_size + 1],
              added |-> TRUE]
        ELSE [t |-> [table |-> [m EXCEPT ![i].conns =
                                   IF @ = << >> THEN @
                                   ELSE [@ EXCEPT ![Len(@)] = entry]],
                     total_size |-> t.total_size],
              added |-> FALSE]

\* ConnectionTable::try_add_connection: the table after, and whether an entry
\* was added (Some) or the connection refused (None).
try_add_connection(t, key, entry, max_per_peer) ==
    LET m0 == t.table
        \* self.table.entry(key).or_default()
        m == IF IndexOf(m0, key) = 0
             THEN Append(m0, [key |-> key, conns |-> << >>])
             ELSE m0
        i == IndexOf(m, key)
        has_connection_capacity == Len(m[i].conns) + 1 <= max_per_peer
    IN  IF has_connection_capacity
        THEN [t |-> [table |-> [m EXCEPT ![i].conns = Append(@, entry)],
                     total_size |-> t.total_size + 1],
              added |-> TRUE]
        ELSE [t |-> [table |-> m, total_size |-> t.total_size],
              added |-> FALSE]

\* The retain predicate without the comparison of the stable_id.
Retained_by_port_only(e, port, stable_id) == e.port # port

\* The retain predicate of remove_connection.
Retained(e, port, stable_id) ==
    \/ e.port # port
    \/ (e.connection # NoConnection /\ e.connection # stable_id)

\* remove_connection that forgets to lower total_size.
remove_connection_keeps_total(t, key, port, stable_id) ==
    LET m == t.table
        i == IndexOf(m, key)
    IN  IF i = 0 THEN [t |-> t, ret |-> 0]
        ELSE LET kept == SelectSeq(m[i].conns, LAMBDA e : Retained(e, port, stable_id))
             IN  [t |-> [table |-> IF kept = << >> THEN swap_remove_index(m, i)
                                   ELSE [m EXCEPT ![i].conns = kept],
                         total_size |-> t.total_size],
                  ret |-> saturating_sub(Len(m[i].conns), Len(kept))]

\* ConnectionTable::remove_connection: the table after, and the value returned.
remove_connection(t, key, port, stable_id) ==
    LET m == t.table
        i == IndexOf(m, key)
    IN  IF i = 0 THEN [t |-> t, ret |-> 0]
        ELSE LET kept == SelectSeq(m[i].conns, LAMBDA e : Retained(e, port, stable_id))
                 connections_removed == saturating_sub(Len(m[i].conns), Len(kept))
             IN  [t |-> [table |-> IF kept = << >> THEN swap_remove_index(m, i)
                                   ELSE [m EXCEPT ![i].conns = kept],
                         total_size |-> saturating_sub(t.total_size, connections_removed)],
                  ret |-> connections_removed]

\* The groups of m whose key is no longer in m2.
EvictedGroups(m, m2) ==
    SelectSeq(m, LAMBDA g : IndexOf(m2, g.key) = 0)

\* ------------------------------------------------- SpecTable: one table

\* What last_op records of an operation: its name and the value it returned
\* (its size or stake argument and the groups it dropped are left out).
Op(op, arg, ret, evicted) == [op |-> op, ret |-> ret]

NoConn == [c \in {} |-> 0]

\* test_packet_batcher's locals where the test does not run: the
\* accumulators it has sent, the batches in the channel it receives from
\* and its count i of the packets received.  Beside them the batcher's
\* coalesce and batch_start_time, the clock they are measured by (now, in
\* milliseconds) and whether the batcher is inside recv or recv_timeout;
\* only SpecCoalesce lets the clock run.
NoTest == [running |-> FALSE, sent |-> 0, pkt_batch_receiver |-> << >>, i |-> 0,
           coalesce |-> 0, now |-> 0, batch_start_time |-> 0, receiving |-> FALSE]

\* The attempts whose handle_connection task is running: from the spawn in
\* handle_and_cache_new_connection to the task's return.
RunningHandlers ==
    {c \in DOMAIN conn :
        conn[c].pc \in {"handler", "stream", "throttled", "lock_remove", "removing"}}

\* The hand-off queue and the batch are empty, no stream is open, exit is
\* not set, the accept loop waits for a connection, no test runs and the
\* load estimator has room for every stream the peers open.
StreamerInit ==
    /\ packet_queue = << >>
    /\ packet_batch = << >>
    /\ total_streams = 0
    /\ total_connections = Cardinality(RunningHandlers)
    /\ exit = FALSE
    /\ accept_loop = "select"
    /\ batcher_test = NoTest
    /\ stream_load_ema = MaxStreams + 1

TableInit ==
    /\ max_connections_per_peer \in 0..MaxPerPeer
    /\ max_staked_connections = 0
    /\ max_unstaked_connections = 0
    /\ open_connections = 0
    /\ table = NewTable
    /\ last_op = Op("new", 0, 0, << >>)
    /\ staked_connection_table = NewTable
    /\ unstaked_connection_table = NewTable
    /\ staked_lock = 0
    /\ conn = NoConn
    /\ clients = {}
    /\ StreamerInit

ServerUnchanged ==
    UNCHANGED << max_connections_per_peer, max_staked_connections,
                 max_unstaked_connections, staked_connection_table,
                 unstaked_connection_table, staked_lock, conn, clients,
                 packet_queue, packet_batch, total_streams, total_connections,
                 exit, accept_loop,
                 batcher_test, stream_load_ema >>

\* The number of entries in the groups a table operation dropped: each drop
\* of a ConnectionEntry drops its ClientConnectionTracker.
DroppedEntries(groups) == SumSeq([i \in 1..Len(groups) |-> Len(groups[i].conns)])

\* try_add_connection with a fresh ClientConnectionTracker, as the unit tests
\* call it: the tracker moves into the new entry, or is dropped on refusal.
TableAdd(key, port, last_update, peer_type) ==
    /\ table.total_size < MaxTableSize
    /\ LET r == try_add_connection(table, key,
                    ConnectionEntry(port, last_update, peer_type, NoConnection),
                    max_connections_per_peer)
       IN  /\ table' = r.t
           /\ open_connections' = IF r.added THEN open_connections + 1 ELSE open_connections
           /\ last_op' = Op("try_add_connection", 0, IF r.added THEN 1 ELSE 0, << >>)
    /\ ServerUnchanged

TablePruneOldest(max_size) ==
    /\ LET r == prune_oldest(table, max_size)
           evicted == EvictedGroups(table.table, r.t.table)
       IN  /\ table' = r.t
           /\ open_connections' = open_connections - DroppedEntries(evicted)
           /\ last_op' = Op("prune_oldest", max_size, r.ret, evicted)
    /\ ServerUnchanged

TablePruneRandom(sample_size, threshold_stake) ==
    /\ \E samples \in Samples(Len(table.table), sample_size) :
         LET r == prune_random(table, samples, threshold_stake)
             evicted == EvictedGroups(table.table, r.t.table)
         IN  /\ table' = r.t
             /\ open_connections' = open_connections - DroppedEntries(evicted)
             /\ last_op' = Op("prune_random", threshold_stake, r.ret, evicted)
    /\ ServerUnchanged

TableRemove(key, port) ==
    /\ LET r == remove_connection(table, key, port, NoConnection)
           i == IndexOf(table.table, key)
           dropped == IF i = 0 THEN << >>
                      ELSE SelectSeq(table.table[i].conns,
                                     LAMBDA e : ~Retained(e, port, NoConnection))
           evicted == IF dropped = << >> THEN << >>
                      ELSE << [key |-> key, conns |-> dropped] >>
       IN  /\ table' = r.t
           /\ open_connections' = open_connections - DroppedEntries(evicted)
           /\ last_op' = Op("remove_connection", 0, r.ret, evicted)
    /\ ServerUnchanged

TableNext ==
    \/ \E key \in Keys, port \in Ports, ts \in Timestamps, pt \in TablePeerTypes :
          TableAdd(key, port, ts, pt)
    \/ \E max_size \in 0..MaxTableSize : TablePruneOldest(max_size)
    \/ \E sample_size \in 0..PRUNE_RANDOM_SAMPLE_SIZE, threshold \in Stakes \cup {0, 3} :
          TablePruneRandom(sample_size, threshold)
    \/ \E key \in Keys, port \in Ports : TableRemove(key, port)

SpecTable == TableInit /\ [][TableNext]_vars

\* ------------------------------------------- the admission pipeline

\* Connection close codes.
CONNECTION_CLOSE_CODE_DROPPED_ENTRY == 1
CONNECTION_CLOSE_CODE_DISALLOWED == 2
CONNECTION_CLOSE_CODE_EXCEED_MAX_STREAM_COUNT == 3
CONNECTION_CLOSE_CODE_TOO_MANY == 4
CONNECTION_CLOSE_CODE_INVALID_STREAM == 5

\* prune_unstaked_connection_table's PRUNE_TABLE_TO_PERCENTAGE
PRUNE_TABLE_TO_PERCENTAGE == 90

\* Connection attempts: the attempt's number is its connection's stable_id.
Conns == 1..MaxConns

\* The clients: a peer without a certificate and two peers whose pubkey has
\* an entry in the stake snapshot.
NoPubkey == "none"
Peers ==
    { [ip |-> "ip1", port |-> 0, pubkey |-> NoPubkey],
      [ip |-> "ip2", port |-> 0, pubkey |-> "A"],
      [ip |-> "ip3", port |-> 0, pubkey |-> "B"] }
NoPeer == [ip |-> "", port |-> 0, pubkey |-> NoPubkey]

\* A peer whose certificate gives a pubkey that has no entry in the stake
\* snapshot.
NoStakePeer == [ip |-> "ip4", port |-> 0, pubkey |-> "C"]
AllPeers == Peers \cup {NoStakePeer}

\* The stake snapshot (StakedNodes): stake per pubkey and the aggregates.
StakedNodes == [stakes |-> [p \in {"A", "B"} |-> IF p = "A" THEN 2 ELSE 1],
                total_stake |-> 3, max_stake |-> 2, min_stake |-> 1]

\* QuicServerParams.max_streams_per_ms, and the throttling interval in ms.
max_streams_per_ms == 1
STREAM_THROTTLING_INTERVAL_MS == 100

\* The stream bounds of solana_quic_definitions.
QUIC_MAX_UNSTAKED_CONCURRENT_STREAMS == 128
QUIC_MIN_STAKED_CONCURRENT_STREAMS == 128
QUIC_MAX_STAKED_CONCURRENT_STREAMS == 512
QUIC_TOTAL_STAKED_CONCURRENT_STREAMS == 100000

\* solana_quic_definitions: the receive window of a staked peer, in packets.
QUIC_MIN_STAKED_RECEIVE_WINDOW_RATIO == 128
QUIC_MAX_STAKED_RECEIVE_WINDOW_RATIO == 512

\* VarInt::from_u64 succeeds for values below 2^62 (= 4 * 2^30 * 2^30).
VarInt_from_u64_ok(v) == (v \div 1073741824) \div 1073741824 < 4

\* ConnectionTableKey::new that keys every peer by its address.
ConnectionTableKey_new_by_ip(ip, maybe_pubkey) == [kind |-> "IP", id |-> ip]

\* ConnectionTableKey::new
ConnectionTableKey_new(ip, maybe_pubkey) ==
    IF maybe_pubkey = NoPubkey THEN [kind |-> "IP", id |-> ip]
    ELSE [kind |-> "Pubkey", id |-> maybe_pubkey]

\* The ceiling without the slack of a quarter.
max_concurrent_connections_no_slack ==
    max_staked_connections + max_unstaked_connections

\* spawn_server_multi: the ceiling on open connections.
max_concurrent_connections ==
    LET concurrent_connections == max_staked_connections + max_unstaked_connections
    IN  concurrent_connections + concurrent_connections \div 4

\* ClientConnectionTracker::new that leaves the count raised when it fails.
ClientConnectionTracker_new_no_rollback(open, max) ==
    [ok |-> open < max, open_connections |-> open + 1]

\* ClientConnectionTracker::new: fetch_add, and fetch_sub again when the value
\* read was at the ceiling.  The result, and the counter after the call.
ClientConnectionTracker_new(open, max) ==
    IF open >= max
    THEN [ok |-> FALSE, open_connections |-> (open + 1) - 1]
    ELSE [ok |-> TRUE, open_connections |-> open + 1]

\* A tracker drop that leaves the counter as it is.
ClientConnectionTracker_drop_forgets(open, n) == open

\* Drop for ClientConnectionTracker, for n trackers: fetch_sub(1) each.
ClientConnectionTracker_drop(open, n) == open - n

\* get_connection_stake: None without a pubkey or without a stake entry of
\* the pubkey in the snapshot.
get_connection_stake(peer, staked_nodes) ==
    IF peer.pubkey = NoPubkey \/ peer.pubkey \notin DOMAIN staked_nodes.stakes
    THEN [some |-> FALSE, pubkey |-> NoPubkey, stake |-> << >>, total_stake |-> << >>]
    ELSE [some |-> TRUE, pubkey |-> peer.pubkey,
          stake |-> staked_nodes.stakes[peer.pubkey],
          total_stake |-> staked_nodes.total_stake]

\* setup_connection: 1_f64 / (max_streams_per_ms *
\* STREAM_THROTTLING_INTERVAL_MS) as f64
min_stake_ratio ==
    F64DivF64(F64OfInt(1),
              F64OfInt(max_streams_per_ms * STREAM_THROTTLING_INTERVAL_MS))

\* The test of the ratio that also turns away a ratio equal to
\* min_stake_ratio.
low_stake_ratio_at_threshold(stake, total_stake) ==
    /\ ~IsZero(total_stake)
    /\ LimbsGeq(min_stake_ratio, F64DivF64(F64OfU64(stake), F64OfU64(total_stake)))

\* setup_connection: stake as f64 / total_stake as f64 < min_stake_ratio.
\* The quotient by a total_stake of zero is infinite or NaN, and neither is
\* below min_stake_ratio.
low_stake_ratio(stake, total_stake) ==
    /\ ~IsZero(total_stake)
    /\ ~LimbsGeq(F64DivF64(F64OfU64(stake), F64OfU64(total_stake)), min_stake_ratio)

\* setup_connection's NewConnectionHandlerParams for a peer and a stake
\* snapshot of u64 values: remote_pubkey, peer_type and total_stake.
NewConnectionHandlerParams(peer, staked_nodes) ==
    LET s == get_connection_stake(peer, staked_nodes)
    IN  IF ~s.some
        THEN [remote_pubkey |-> NoPubkey, peer_type |-> Unstaked, total_stake |-> << >>]
        ELSE [remote_pubkey |-> s.pubkey,
              peer_type |-> IF low_stake_ratio(s.stake, s.total_stake)
                            THEN Unstaked ELSE Staked(s.stake),
              total_stake |-> s.total_stake]

\* setup_connection's NewConnectionHandlerParams under the snapshot
\* StakedNodes: remote_pubkey, peer_type and total_stake.  The stakes of
\* StakedNodes are far below 2^52, where stake as f64 / total_stake as f64 <
\* min_stake_ratio is the comparison of the whole numbers, cross-multiplied.
HandlerParams(peer) ==
    LET s == get_connection_stake(peer, StakedNodes)
    IN  IF ~s.some
        THEN [remote_pubkey |-> NoPubkey, peer_type |-> Unstaked, total_stake |-> 0]
        ELSE [remote_pubkey |-> s.pubkey,
              peer_type |-> IF s.stake * (max_streams_per_ms * STREAM_THROTTLING_INTERVAL_MS)
                                  < s.total_stake
                            THEN Unstaked ELSE Staked(s.stake),
              total_stake |-> s.total_stake]

\* compute_max_allowed_uni_streams without the clamp.
compute_max_allowed_uni_streams_unclamped(peer_type, total_stake) ==
    IF peer_type.staked
    THEN IF total_stake = 0 \/ peer_type.stake > total_stake
         THEN QUIC_MIN_STAKED_CONCURRENT_STREAMS
         ELSE F64AsInt(F64MulInt(F64Div(peer_type.stake, total_stake),
                                 QUIC_TOTAL_STAKED_CONCURRENT_STREAMS
                                     - QUIC_MIN_STAKED_CONCURRENT_STREAMS))
                  + QUIC_MIN_STAKED_CONCURRENT_STREAMS
    ELSE QUIC_MAX_UNSTAKED_CONCURRENT_STREAMS

\* compute_max_allowed_uni_streams taking peer_stake >= total_stake for the
\* invalid case.
compute_max_allowed_uni_streams_min_at_total(peer_type, total_stake) ==
    IF peer_type.staked
    THEN IF total_stake = 0 \/ peer_type.stake >= total_stake
         THEN QUIC_MIN_STAKED_CONCURRENT_STREAMS
         ELSE Min2(F64AsInt(F64MulInt(F64Div(peer_type.stake, total_stake),
                                      QUIC_TOTAL_STAKED_CONCURRENT_STREAMS
                                          - QUIC_MIN_STAKED_CONCURRENT_STREAMS))
                       + QUIC_MIN_STAKED_CONCURRENT_STREAMS,
                   QUIC_MAX_STAKED_CONCURRENT_STREAMS)
    ELSE QUIC_MAX_UNSTAKED_CONCURRENT_STREAMS

\* compute_max_allowed_uni_streams
compute_max_allowed_uni_streams(peer_type, total_stake) ==
    IF peer_type.staked
    THEN IF total_stake = 0 \/ peer_type.stake > total_stake
         THEN QUIC_MIN_STAKED_CONCURRENT_STREAMS
         ELSE LET delta == QUIC_TOTAL_STAKED_CONCURRENT_STREAMS
                               - QUIC_MIN_STAKED_CONCURRENT_STREAMS
                  v == F64AsInt(F64MulInt(F64Div(peer_type.stake, total_stake), delta))
                           + QUIC_MIN_STAKED_CONCURRENT_STREAMS
              IN  IF v < QUIC_MIN_STAKED_CONCURRENT_STREAMS
                  THEN QUIC_MIN_STAKED_CONCURRENT_STREAMS
                  ELSE Min2(v, QUIC_MAX_STAKED_CONCURRENT_STREAMS)
    ELSE QUIC_MAX_UNSTAKED_CONCURRENT_STREAMS

\* compute_receive_window_ratio_for_staked_node with the line through
\* (min_stake, max ratio) and (max_stake, min ratio).
compute_receive_window_ratio_for_staked_node_falling(max_stake, min_stake, stake) ==
    IF stake > max_stake THEN QUIC_MAX_STAKED_RECEIVE_WINDOW_RATIO
    ELSE IF max_stake > min_stake
    THEN LET a == F64Div(QUIC_MAX_STAKED_RECEIVE_WINDOW_RATIO
                             - QUIC_MIN_STAKED_RECEIVE_WINDOW_RATIO,
                         max_stake - min_stake)
             b == F64Sub(F64OfInt(QUIC_MAX_STAKED_RECEIVE_WINDOW_RATIO),
                         F64MulInt(a, max_stake))
         IN  F64RoundAsInt(F64Add(F64MulInt(a, max_stake + min_stake - stake), b))
    ELSE QUIC_MAX_STAKED_RECEIVE_WINDOW_RATIO

\* compute_receive_window_ratio_for_staked_node
compute_receive_window_ratio_for_staked_node(max_stake, min_stake, stake) ==
    IF stake > max_stake THEN QUIC_MAX_STAKED_RECEIVE_WINDOW_RATIO
    ELSE IF max_stake > min_stake
    THEN LET a == F64Div(QUIC_MAX_STAKED_RECEIVE_WINDOW_RATIO
                             - QUIC_MIN_STAKED_RECEIVE_WINDOW_RATIO,
                         max_stake - min_stake)
             b == F64Sub(F64OfInt(QUIC_MAX_STAKED_RECEIVE_WINDOW_RATIO),
                         F64MulInt(a, max_stake))
             ratio == F64Add(F64MulInt(a, stake), b)
         IN  F64RoundAsInt(ratio)
    ELSE QUIC_MAX_STAKED_RECEIVE_WINDOW_RATIO

\* Percentage::apply_to of prune_unstaked_connection_table.
max_connections_after_prune(max_unstaked) ==
    (max_unstaked * PRUNE_TABLE_TO_PERCENTAGE) \div 100

\* prune_unstaked_connection_table that leaves a table at capacity as it is.
prune_unstaked_connection_table_skipped(t, max_unstaked) == t

\* prune_unstaked_connection_table: the table after.
prune_unstaked_connection_table(t, max_unstaked) ==
    IF t.total_size >= max_unstaked
    THEN prune_oldest(t, max_connections_after_prune(max_unstaked)).t
    ELSE t

\* setup_connection consulting the two limiters before it awaits the
\* handshake.
setup_connection_gates_limiters_first(res, ip_allowed, all_allowed) ==
    IF ~ip_allowed
    THEN [gates |-> << "per_ip_rate" >>,
          outcome |-> "connection_rate_limited_per_ipaddr",
          close |-> CONNECTION_CLOSE_CODE_DISALLOWED]
    ELSE IF ~all_allowed
    THEN [gates |-> << "per_ip_rate", "global_rate" >>,
          outcome |-> "connection_rate_limited_across_all",
          close |-> CONNECTION_CLOSE_CODE_DISALLOWED]
    ELSE IF res = "timeout"
    THEN [gates |-> << "per_ip_rate", "global_rate", "handshake" >>,
          outcome |-> "connection_setup_timeout", close |-> 0]
    ELSE IF res = "error"
    THEN [gates |-> << "per_ip_rate", "global_rate", "handshake" >>,
          outcome |-> "connection_setup_error", close |-> 0]
    ELSE [gates |-> << "per_ip_rate", "global_rate", "handshake" >>,
          outcome |-> "", close |-> 0]

\* The gates of setup_connection in the order the task passes them, for a
\* handshake result and the two limiters' answers: the gates consulted, the
\* counter bumped on rejection ("" when the peer goes on to classification)
\* and the close code sent (0: none).
setup_connection_gates(res, ip_allowed, all_allowed) ==
    IF res = "timeout"
    THEN [gates |-> << "handshake" >>, outcome |-> "connection_setup_timeout", close |-> 0]
    ELSE IF res = "error"
    THEN [gates |-> << "handshake" >>, outcome |-> "connection_setup_error", close |-> 0]
    ELSE IF ~ip_allowed
    THEN [gates |-> << "handshake", "per_ip_rate" >>,
          outcome |-> "connection_rate_limited_per_ipaddr",
          close |-> CONNECTION_CLOSE_CODE_DISALLOWED]
    ELSE IF ~all_allowed
    THEN [gates |-> << "handshake", "per_ip_rate", "global_rate" >>,
          outcome |-> "connection_rate_limited_across_all",
          close |-> CONNECTION_CLOSE_CODE_DISALLOWED]
    ELSE [gates |-> << "handshake", "per_ip_rate", "global_rate" >>,
          outcome |-> "", close |-> 0]

\* A connection attempt not yet made, and one that is over: its task has
\* returned and its ClientConnectionTracker is dropped.
\* Meta::default() after set_socket_addr and set_from_staked_node.
Meta(peer, peer_type) ==
    [size |-> 0, addr |-> peer.ip, from_staked_node |-> peer_type.staked]

\* PacketAccumulator::new (start_time left out).
PacketAccumulator_new(meta) == [meta |-> meta, chunks |-> << >>]

\* The accumulator slot of a handler that is between two streams.
NoAccum == PacketAccumulator_new(Meta(NoPeer, Unstaked))

\* An attempt the accept loop has not received yet: the task's position,
\* the peer, the table its handler was spawned for, the close code sent on
\* the connection (0: open), the entry's cancellation token, and of its
\* handler the streams accepted, the bytes read of the current stream and
\* the accumulator; of its ConnectionStreamCounter the stream count and
\* the ticks since last_throttling_instant, and the ticks left of the
\* handler's throttling sleep.
IdleConn ==
    [pc |-> "idle", peer |-> NoPeer, tbl |-> "none", close_code |-> 0,
     cancelled |-> FALSE, streams |-> 0, offset |-> 0, accum |-> NoAccum,
     stream_count |-> 0, elapsed |-> 0, sleep_left |-> 0]
DoneConn == [IdleConn EXCEPT !.pc = "done"]

\* What last_op records of a step of the pipeline: the attempt, the stats
\* counter that tells its outcome ("" while the attempt goes on), the gates
\* the attempt has passed through so far in their order, the close code the
\* step sent to the attempt's peer (0: none) and the entries the step evicted.
Event(c, outcome, gates, close, pruned) ==
    [c |-> c, outcome |-> outcome, gates |-> gates, close |-> close,
     pruned |-> pruned]

\* The gates behind an attempt that reached the table locks.
GatesPassed == << "capacity" >> \o setup_connection_gates("ok", TRUE, TRUE).gates

\* The connections (stable ids) of the entries in the groups.
ConnectionsIn(groups) ==
    UNION {{groups[i].conns[j].connection : j \in 1..Len(groups[i].conns)} :
             i \in 1..Len(groups)}

\* Drop for ConnectionEntry, for every entry in the groups: the connection
\* is closed as dropped and the cancellation token cancelled.
DropEntries(cn, groups) ==
    [c \in DOMAIN cn |->
        IF c \in ConnectionsIn(groups)
        THEN [cn[c] EXCEPT !.cancelled = TRUE,
                           !.close_code = IF @ = 0
                                          THEN CONNECTION_CLOSE_CODE_DROPPED_ENTRY ELSE @]
        ELSE cn[c]]

\* The task of attempt c returns.
Finish(cn, c) == [cn EXCEPT ![c] = DoneConn]

Init ==
    /\ max_connections_per_peer \in 0..MaxPerPeer
    /\ max_staked_connections \in 0..MaxStaked
    /\ max_unstaked_connections \in 0..MaxUnstaked
    /\ open_connections = 0
    /\ table = NewTable
    /\ last_op = Op("new", 0, 0, << >>)
    /\ staked_connection_table = NewTable
    /\ unstaked_connection_table = NewTable
    /\ staked_lock = 0
    /\ conn = [c \in Conns |-> IdleConn]
    /\ clients = {p.pubkey : p \in Peers}
    /\ StreamerInit

ConfigUnchanged ==
    UNCHANGED << max_connections_per_peer, max_staked_connections,
                 max_unstaked_connections, table, clients,
                 packet_queue, packet_batch, total_streams, exit, accept_loop,
                 batcher_test, stream_load_ema >>

\* compute_max_allowed_uni_streams(params.peer_type, params.total_stake) as
\* handle_and_cache_new_connection calls it, for each peer.
PeerMaxUniStreams ==
    [peer \in AllPeers |->
        compute_max_allowed_uni_streams(HandlerParams(peer).peer_type,
                                        HandlerParams(peer).total_stake)]

\* handle_and_cache_new_connection with a refusal at the peer's cap closed
\* as disallowed.
handle_and_cache_new_connection_disallowed(t, c, now) ==
    LET peer == conn[c].peer
        params == HandlerParams(peer)
        max_uni_streams == PeerMaxUniStreams[peer]
    IN  IF VarInt_from_u64_ok(max_uni_streams)
        THEN LET r == try_add_connection(t,
                          ConnectionTableKey_new(peer.ip, params.remote_pubkey),
                          ConnectionEntry(peer.port, now, params.peer_type, c),
                          max_connections_per_peer)
             IN  [t |-> r.t, ok |-> r.added,
                  close |-> IF r.added THEN 0 ELSE CONNECTION_CLOSE_CODE_DISALLOWED,
                  outcome |-> IF r.added THEN "" ELSE "connection_add_failed"]
        ELSE [t |-> t, ok |-> FALSE,
              close |-> CONNECTION_CLOSE_CODE_EXCEED_MAX_STREAM_COUNT,
              outcome |-> "connection_add_failed_invalid_stream_count"]

\* handle_and_cache_new_connection on the locked table t for attempt c at
\* time now: the table after, whether a handler was spawned, and on failure
\* the close code sent and the counter bumped.
handle_and_cache_new_connection(t, c, now) ==
    LET peer == conn[c].peer
        params == HandlerParams(peer)
        max_uni_streams == PeerMaxUniStreams[peer]
    IN  IF VarInt_from_u64_ok(max_uni_streams)
        THEN LET r == try_add_connection(t,
                          ConnectionTableKey_new(peer.ip, params.remote_pubkey),
                          ConnectionEntry(peer.port, now, params.peer_type, c),
                          max_connections_per_peer)
             IN  [t |-> r.t, ok |-> r.added,
                  close |-> IF r.added THEN 0 ELSE CONNECTION_CLOSE_CODE_TOO_MANY,
                  outcome |-> IF r.added THEN "" ELSE "connection_add_failed"]
        ELSE [t |-> t, ok |-> FALSE,
              close |-> CONNECTION_CLOSE_CODE_EXCEED_MAX_STREAM_COUNT,
              outcome |-> "connection_add_failed_invalid_stream_count"]

\* run_server: one turn of the accept loop in which it receives the
\* Incoming of attempt c, up to the test of exit at the head of the next
\* turn.
run_server(c) ==
    /\ accept_loop = "select"
    /\ conn[c].pc = "idle"
    /\ \A d \in 1..(c - 1) : conn[d].pc # "idle"
    /\ \E peer \in {p \in AllPeers : p.pubkey \in clients}, accept_ok \in BOOLEAN :
         LET tracker == ClientConnectionTracker_new(open_connections,
                                                    max_concurrent_connections)
         IN  IF ~tracker.ok
             THEN \* incoming.refuse()
                  /\ open_connections' = tracker.open_connections
                  /\ conn' = Finish(conn, c)
                  /\ last_op' = Op("run_server", 0,
                                   Event(c, "refused_connections_too_many_open_connections",
                                         << "capacity" >>, 0, 0), << >>)
             ELSE IF accept_ok
             THEN \* tokio::spawn(setup_connection(..))
                  /\ open_connections' = tracker.open_connections
                  /\ conn' = [conn EXCEPT ![c].pc = "handshake", ![c].peer = peer]
                  /\ last_op' = Op("run_server", 0,
                                   Event(c, "", << "capacity" >>, 0, 0), << >>)
             ELSE \* Incoming::accept() failed: the tracker goes out of scope
                  /\ open_connections' =
                         ClientConnectionTracker_drop(tracker.open_connections, 1)
                  /\ conn' = Finish(conn, c)
                  /\ last_op' = Op("run_server", 0,
                                   Event(c, "accept_error", << "capacity" >>, 0, 0), << >>)
    /\ accept_loop' = IF exit THEN "returned" ELSE "select"
    /\ UNCHANGED << staked_connection_table, unstaked_connection_table, staked_lock,
                    max_connections_per_peer, max_staked_connections,
                    max_unstaked_connections, table, clients,
                    packet_queue, packet_batch, total_streams, total_connections, exit,
                    batcher_test, stream_load_ema >>

\* What a setup task can meet after the capacity gate: the handshake's
\* result and, as far as they are consulted, the two limiters' answers.
SetupInputs ==
    { << "timeout", TRUE, TRUE >>, << "error", TRUE, TRUE >>,
      << "ok", FALSE, TRUE >>, << "ok", TRUE, FALSE >>, << "ok", TRUE, TRUE >> }

\* setup_connection for an attempt that ends at the handshake or at one of the
\* rate limiters.
setup_connection_rejected(c) ==
    /\ conn[c].pc = "handshake"
    /\ \E in \in SetupInputs :
         LET g == setup_connection_gates(in[1], in[2], in[3])
         IN  /\ g.outcome # ""
             /\ conn' = Finish(conn, c)
             /\ open_connections' = ClientConnectionTracker_drop(open_connections, 1)
             /\ last_op' = Op("setup_connection", 0,
                              Event(c, g.outcome, << "capacity" >> \o g.gates, g.close, 0),
                              << >>)
    /\ UNCHANGED << staked_connection_table, unstaked_connection_table, staked_lock >>
    /\ UNCHANGED total_connections
    /\ ConfigUnchanged

\* AddToUnstaked without the test of max_connections > 0.
AddToUnstaked_without_zero_check(op, c, now, staked, cn0, open0) ==
    LET added == IF staked THEN "connection_added_from_staked_peer"
                 ELSE "connection_added_from_unstaked_peer"
        failed == IF staked THEN "connection_add_failed_staked_node"
                  ELSE "connection_add_failed_unstaked_node"
    IN  IF max_unstaked_connections >= 0
        THEN LET pruned == prune_unstaked_connection_table(unstaked_connection_table,
                                                           max_unstaked_connections)
                 evicted == EvictedGroups(unstaked_connection_table.table, pruned.table)
                 cn == DropEntries(cn0, evicted)
                 open == ClientConnectionTracker_drop(open0,
                                                      DroppedEntries(evicted))
                 h == handle_and_cache_new_connection(pruned, c, now)
             IN  /\ unstaked_connection_table' = h.t
                 /\ IF h.ok
                    THEN /\ conn' = [cn EXCEPT ![c].pc = "handler", ![c].tbl = "unstaked"]
                         /\ total_connections' = total_connections + 1
                         /\ open_connections' = open
                         /\ last_op' = Op(op, 0,
                                          Event(c, added, GatesPassed, 0,
                                                DroppedEntries(evicted)), << >>)
                    ELSE /\ conn' = Finish(cn, c)
                         /\ UNCHANGED total_connections
                         /\ open_connections' = ClientConnectionTracker_drop(open, 1)
                         /\ last_op' = Op(op, 0,
                                          Event(c, failed, GatesPassed, h.close,
                                                DroppedEntries(evicted)), << >>)
        ELSE /\ unstaked_connection_table' = unstaked_connection_table
             /\ conn' = Finish(cn0, c)
             /\ UNCHANGED total_connections
             /\ open_connections' = ClientConnectionTracker_drop(open0, 1)
             /\ last_op' = Op(op, 0,
                              Event(c, failed, GatesPassed,
                                    CONNECTION_CLOSE_CODE_DISALLOWED, 0), << >>)

\* prune_unstaked_connections_and_add_new_connection for attempt c at time
\* now, as a step: the unstaked table is pruned when at capacity and the
\* connection added to it, or the connection is closed as disallowed when
\* max_unstaked_connections is 0.  op names the step for last_op, staked
\* tells the arm of the caller, cn0 and open0 are the connections and the
\* counter as the caller leaves them.
AddToUnstaked(op, c, now, staked, cn0, open0) ==
    LET added == IF staked THEN "connection_added_from_staked_peer"
                 ELSE "connection_added_from_unstaked_peer"
        failed == IF staked THEN "connection_add_failed_staked_node"
                  ELSE "connection_add_failed_unstaked_node"
    IN  IF max_unstaked_connections > 0
        THEN LET pruned == prune_unstaked_connection_table(unstaked_connection_table,
                                                           max_unstaked_connections)
                 evicted == EvictedGroups(unstaked_connection_table.table, pruned.table)
                 cn == DropEntries(cn0, evicted)
                 open == ClientConnectionTracker_drop(open0,
                                                      DroppedEntries(evicted))
                 h == handle_and_cache_new_connection(pruned, c, now)
             IN  /\ unstaked_connection_table' = h.t
                 /\ IF h.ok
                    THEN /\ conn' = [cn EXCEPT ![c].pc = "handler", ![c].tbl = "unstaked"]
                         /\ total_connections' = total_connections + 1
                         /\ open_connections' = open
                         /\ last_op' = Op(op, 0,
                                          Event(c, added, GatesPassed, 0,
                                                DroppedEntries(evicted)), << >>)
                    ELSE /\ conn' = Finish(cn, c)
                         /\ UNCHANGED total_connections
                         /\ open_connections' = ClientConnectionTracker_drop(open, 1)
                         /\ last_op' = Op(op, 0,
                                          Event(c, failed, GatesPassed, h.close,
                                                DroppedEntries(evicted)), << >>)
        ELSE /\ unstaked_connection_table' = unstaked_connection_table
             /\ conn' = Finish(cn0, c)
             /\ UNCHANGED total_connections
             /\ open_connections' = ClientConnectionTracker_drop(open0, 1)
             /\ last_op' = Op(op, 0,
                              Event(c, failed, GatesPassed,
                                    CONNECTION_CLOSE_CODE_DISALLOWED, 0), << >>)

\* setup_connection for an attempt that passes the handshake and both
\* limiters and is classified Unstaked.
setup_connection_unstaked(c) ==
    /\ conn[c].pc = "handshake"
    /\ setup_connection_gates("ok", TRUE, TRUE).outcome = ""
    /\ ~HandlerParams(conn[c].peer).peer_type.staked
    /\ \E now \in Timestamps : AddToUnstaked("setup_connection", c, now, FALSE, conn, open_connections)
    /\ UNCHANGED << staked_connection_table, staked_lock >>
    /\ ConfigUnchanged

\* The Staked arm of setup_connection under the staked table's lock:
\* prune_random on a full table, then the add, or the fallback to the
\* unstaked table, which the task enters with the staked table's guard
\* alive.  Nothing reads the last_update of an entry of the staked table: it
\* is recorded as 0.
StakedArm(c) ==
       \E samples \in IF staked_connection_table.total_size >= max_staked_connections
                     THEN Samples(Len(staked_connection_table.table),
                                  PRUNE_RANDOM_SAMPLE_SIZE)
                     ELSE {<< >>} :
         LET stake == HandlerParams(conn[c].peer).peer_type.stake
             pruned == IF staked_connection_table.total_size >= max_staked_connections
                       THEN prune_random(staked_connection_table, samples, stake).t
                       ELSE staked_connection_table
             evicted == EvictedGroups(staked_connection_table.table, pruned.table)
             cn == DropEntries(conn, evicted)
             open == ClientConnectionTracker_drop(open_connections, DroppedEntries(evicted))
         IN  IF pruned.total_size < max_staked_connections
             THEN LET h == handle_and_cache_new_connection(pruned, c, 0)
                  IN  /\ staked_connection_table' = h.t
                      /\ staked_lock' = 0
                      /\ unstaked_connection_table' = unstaked_connection_table
                      /\ IF h.ok
                         THEN /\ conn' = [cn EXCEPT ![c].pc = "handler",
                                                    ![c].tbl = "staked"]
                              /\ total_connections' = total_connections + 1
                              /\ open_connections' = open
                              /\ last_op' = Op("setup_connection", 0,
                                               Event(c, "connection_added_from_staked_peer",
                                                     GatesPassed, 0,
                                                     DroppedEntries(evicted)), << >>)
                         ELSE /\ conn' = Finish(cn, c)
                              /\ UNCHANGED total_connections
                              /\ open_connections' = ClientConnectionTracker_drop(open, 1)
                              /\ last_op' = Op("setup_connection", 0,
                                               Event(c, h.outcome, GatesPassed, h.close,
                                                     DroppedEntries(evicted)), << >>)
             ELSE IF max_unstaked_connections > 0
             THEN \* connection_table.lock().await with connection_table_l alive
                  /\ staked_connection_table' = pruned
                  /\ staked_lock' = c
                  /\ unstaked_connection_table' = unstaked_connection_table
                  /\ conn' = [cn EXCEPT ![c].pc = "fallback"]
                  /\ UNCHANGED total_connections
                  /\ open_connections' = open
                  /\ last_op' = Op("setup_connection", 0,
                                   Event(c, "", GatesPassed, 0, DroppedEntries(evicted)),
                                   << >>)
             ELSE /\ staked_connection_table' = pruned
                  /\ staked_lock' = 0
                  /\ AddToUnstaked("setup_connection", c, 0, TRUE, cn, open)

\* setup_connection for an attempt that passes the handshake and both
\* limiters and is classified Staked: from taking the staked table's lock
\* to its release, or to the await of the unstaked table's lock, which the
\* task enters with the staked table's guard alive.  Nothing reads the
\* last_update of an entry of the staked table: it is recorded as 0.
setup_connection_staked(c) ==
    /\ conn[c].pc = "handshake"
    /\ setup_connection_gates("ok", TRUE, TRUE).outcome = ""
    /\ HandlerParams(conn[c].peer).peer_type.staked
    /\ staked_lock = 0
    /\ StakedArm(c)
    /\ ConfigUnchanged

\* The rest of the Staked arm for a peer that found no room in the staked
\* table: prune_unstaked_connections_and_add_new_connection from the
\* unstaked table's lock on, and the release of both guards.
prune_unstaked_connections_and_add_new_connection(c) ==
    /\ conn[c].pc = "fallback"
    /\ \E now \in Timestamps : AddToUnstaked("prune_unstaked_connections_and_add_new_connection",
                                            c, now, TRUE, conn, open_connections)
    /\ staked_lock' = 0
    /\ UNCHANGED staked_connection_table
    /\ ConfigUnchanged

\* handle_connection's remove_connection on the table the handler was
\* spawned for, and the task's return.
HandlerRemoves(c) ==
       LET peer == conn[c].peer
           key == ConnectionTableKey_new(peer.ip, HandlerParams(peer).remote_pubkey)
           t == IF conn[c].tbl = "staked" THEN staked_connection_table
                ELSE unstaked_connection_table
           r == remove_connection(t, key, peer.port, c)
       IN  /\ IF conn[c].tbl = "staked"
              THEN /\ staked_connection_table' = r.t
                   /\ UNCHANGED unstaked_connection_table
              ELSE /\ unstaked_connection_table' = r.t
                   /\ UNCHANGED staked_connection_table
           /\ open_connections' = ClientConnectionTracker_drop(open_connections, r.ret)
           /\ conn' = Finish(conn, c)
           /\ total_connections' = total_connections - 1
           /\ last_op' = Op("handle_connection", 0,
                            Event(c, IF r.ret > 0 THEN "connection_removed"
                                     ELSE "connection_remove_failed",
                                  GatesPassed, 0, 0), << >>)

\* handle_connection from leaving its loop (the peer went away, the idle
\* timeout passed or the entry's token was cancelled) to its return:
\* remove_connection under the lock of the table the handler was spawned for.
handle_connection(c) ==
    /\ conn[c].pc = "handler"
    /\ conn[c].tbl = "staked" => staked_lock = 0
    /\ HandlerRemoves(c)
    /\ UNCHANGED staked_lock
    /\ ConfigUnchanged

Next ==
    \E c \in DOMAIN conn :
        \/ run_server(c)
        \/ setup_connection_rejected(c)
        \/ setup_connection_unstaked(c)
        \/ setup_connection_staked(c)
        \/ prune_unstaked_connections_and_add_new_connection(c)
        \/ handle_connection(c)

Spec == Init /\ [][Next]_vars

\* SpecKey: two attempts of peers of every kind - no certificate, a pubkey
\* without stake, a pubkey with stake - through the pipeline, with room for
\* one staked connection.
InitKey ==
    /\ max_connections_per_peer \in 1..2
    /\ max_staked_connections = 1
    /\ max_unstaked_connections \in 1..2
    /\ open_connections = 0
    /\ table = NewTable
    /\ last_op = Op("new", 0, 0, << >>)
    /\ staked_connection_table = NewTable
    /\ unstaked_connection_table = NewTable
    /\ staked_lock = 0
    /\ conn = [c \in 1..2 |-> IdleConn]
    /\ clients \in {{NoPubkey, "C"}, {"A", "C"}, {"A", "B"}}
    /\ StreamerInit

SpecKey == InitKey /\ [][Next]_vars

\* Configurations with max_staked_connections + max_unstaked_connections = 4:
\* s, u and p are the three limits, n the attempts made (as many as the
\* capacity gate admits at once, or one more) and pubkeys the peers that
\* connect.
FullConfigs ==
    { [s |-> 1, u |-> 3, p |-> 2, n |-> 5, pubkeys |-> {"A", "B"}],
      [s |-> 4, u |-> 0, p |-> 2, n |-> 5, pubkeys |-> {"A", "B"}],
      [s |-> 2, u |-> 2, p |-> 0, n |-> 6, pubkeys |-> {NoPubkey, "A", "B"}] }

InitFull ==
    /\ \E cfg \in FullConfigs :
          /\ max_connections_per_peer = cfg.p
          /\ max_staked_connections = cfg.s
          /\ max_unstaked_connections = cfg.u
          /\ conn = [c \in 1..cfg.n |-> IdleConn]
          /\ clients = cfg.pubkeys
    /\ StreamerInit
    /\ open_connections = 0
    /\ table = NewTable
    /\ last_op = Op("new", 0, 0, << >>)
    /\ staked_connection_table = NewTable
    /\ unstaked_connection_table = NewTable
    /\ staked_lock = 0

SpecFull == InitFull /\ [][Next]_vars

\* A server that admits no unstaked connection, beside one that admits a
\* single one: max_unstaked_connections is 0 or 1, the staked table has room
\* for four connections of one key, and an unstaked and a staked peer make
\* five attempts.
InitDisabled ==
    /\ max_connections_per_peer = 4
    /\ max_staked_connections = 4
    /\ max_unstaked_connections \in 0..1
    /\ conn = [c \in 1..5 |-> IdleConn]
    /\ clients = {NoPubkey, "B"}
    /\ StreamerInit
    /\ open_connections = 0
    /\ table = NewTable
    /\ last_op = Op("new", 0, 0, << >>)
    /\ staked_connection_table = NewTable
    /\ unstaked_connection_table = NewTable
    /\ staked_lock = 0

SpecDisabled == InitDisabled /\ [][Next]_vars

\* ------------------- SpecLocks: the admission pipeline lock by lock

\* The attempts of SpecLocks.
LockConns == 1..3

\* The task holds the guard of the unstaked table's Mutex: a setup task
\* between lock().await in prune_unstaked_connections_and_add_new_connection
\* and its return, or a handler of the unstaked table inside
\* remove_connection.
HoldsUnstaked(c) ==
    \/ conn[c].pc \in {"unstaked_locked", "fallback_locked"}
    \/ (conn[c].pc = "removing" /\ conn[c].tbl = "unstaked")

\* The holder of the unstaked table's Mutex (0: free).
unstaked_lock ==
    IF \E c \in DOMAIN conn : HoldsUnstaked(c)
    THEN CHOOSE c \in DOMAIN conn : HoldsUnstaked(c)
    ELSE 0

\* The table whose lock().await the task is suspended at ("none": at no
\* lock).
AwaitsLock(c) ==
    CASE conn[c].pc = "lock_staked" -> "staked"
      [] conn[c].pc \in {"lock_unstaked", "fallback"} -> "unstaked"
      [] conn[c].pc = "lock_remove" -> conn[c].tbl
      [] OTHER -> "none"

LocksUnchanged ==
    /\ UNCHANGED << open_connections, last_op, staked_connection_table,
                    unstaked_connection_table >>
    /\ UNCHANGED total_connections
    /\ ConfigUnchanged

\* setup_connection reaching the lock().await of its arm: the staked
\* table's for a Staked peer, the unstaked table's for an Unstaked peer when
\* max_unstaked_connections > 0.
setup_connection_awaits_lock(c) ==
    /\ conn[c].pc = "handshake"
    /\ setup_connection_gates("ok", TRUE, TRUE).outcome = ""
    /\ HandlerParams(conn[c].peer).peer_type.staked \/ max_unstaked_connections > 0
    /\ conn' = [conn EXCEPT ![c].pc = IF HandlerParams(conn[c].peer).peer_type.staked
                                      THEN "lock_staked" ELSE "lock_unstaked"]
    /\ UNCHANGED staked_lock
    /\ LocksUnchanged

\* handle_connection leaving its loop and reaching
\* connection_table.lock().await.
handle_connection_awaits_lock(c) ==
    /\ conn[c].pc = "handler"
    /\ conn' = [conn EXCEPT ![c].pc = "lock_remove"]
    /\ UNCHANGED staked_lock
    /\ LocksUnchanged

\* Mutex::lock returning its guard to the task that awaits it.
Mutex_lock(c) ==
    /\ AwaitsLock(c) # "none"
    /\ IF AwaitsLock(c) = "staked"
       THEN /\ staked_lock = 0
            /\ staked_lock' = c
       ELSE /\ unstaked_lock = 0
            /\ UNCHANGED staked_lock
    /\ conn' = [conn EXCEPT ![c].pc = CASE conn[c].pc = "lock_staked" -> "staked_locked"
                                        [] conn[c].pc = "lock_unstaked" -> "unstaked_locked"
                                        [] conn[c].pc = "fallback" -> "fallback_locked"
                                        [] conn[c].pc = "lock_remove" -> "removing"]
    /\ LocksUnchanged

\* The Staked arm from the guard of the staked table on.
setup_connection_staked_locked(c) ==
    /\ conn[c].pc = "staked_locked"
    /\ StakedArm(c)
    /\ ConfigUnchanged

\* prune_unstaked_connections_and_add_new_connection under the unstaked
\* table's guard that returns with the staked table's guard alive.
setup_connection_unstaked_locked_keeps_guard(c) ==
    /\ conn[c].pc \in {"unstaked_locked", "fallback_locked"}
    /\ \E now \in Timestamps :
         AddToUnstaked("prune_unstaked_connections_and_add_new_connection",
                       c, now, conn[c].pc = "fallback_locked", conn, open_connections)
    /\ UNCHANGED << staked_lock, staked_connection_table >>
    /\ ConfigUnchanged

\* prune_unstaked_connections_and_add_new_connection under the unstaked
\* table's guard, for an Unstaked peer or on the fallback; the guards the
\* task holds are dropped as it returns.
setup_connection_unstaked_locked(c) ==
    /\ conn[c].pc \in {"unstaked_locked", "fallback_locked"}
    /\ \E now \in Timestamps :
         AddToUnstaked("prune_unstaked_connections_and_add_new_connection",
                       c, now, conn[c].pc = "fallback_locked", conn, open_connections)
    /\ staked_lock' = IF staked_lock = c THEN 0 ELSE staked_lock
    /\ UNCHANGED staked_connection_table
    /\ ConfigUnchanged

\* handle_connection's remove_connection under the guard, and its return.
handle_connection_locked(c) ==
    /\ conn[c].pc = "removing"
    /\ HandlerRemoves(c)
    /\ staked_lock' = IF staked_lock = c THEN 0 ELSE staked_lock
    /\ ConfigUnchanged

\* Three attempts of a peer without stake and of the staked peer A at a
\* server with room for one staked and two unstaked connections, two to a
\* key.
InitLocks ==
    /\ max_connections_per_peer = 2
    /\ max_staked_connections = 1
    /\ max_unstaked_connections = 2
    /\ open_connections = 0
    /\ table = NewTable
    /\ last_op = Op("new", 0, Event(0, "", << >>, 0, 0), << >>)
    /\ staked_connection_table = NewTable
    /\ unstaked_connection_table = NewTable
    /\ staked_lock = 0
    /\ conn = [c \in LockConns |-> IdleConn]
    /\ clients = {NoPubkey, "A"}
    /\ StreamerInit

\* A task under a guard: the rest of its arm, or of handle_connection.
UnderGuard(c) ==
    \/ setup_connection_staked_locked(c)
    \/ setup_connection_unstaked_locked(c)
    \/ handle_connection_locked(c)

LocksNext ==
    \E c \in LockConns :
        \/ run_server(c)
        \/ setup_connection_rejected(c)
        \/ setup_connection_awaits_lock(c)
        \/ handle_connection_awaits_lock(c)
        \/ Mutex_lock(c)
        \/ UnderGuard(c)

SpecLocks == InitLocks /\ [][LocksNext]_vars

\* The tasks holding a guard run on to the point where they drop it (they
\* await nothing but, on the fallback, the other Mutex), and a Mutex that
\* stays free is given to a task that awaits it.  (tokio's Mutex promises
\* more: it serves the waiting tasks in the order they came.)
SpecLocksFair ==
    /\ SpecLocks
    /\ \A c \in LockConns :
          /\ WF_vars(Mutex_lock(c))
          /\ WF_vars(UnderGuard(c))


\* ------------------------------ SpecAdmit: unstaked admissions in a row

\* The admissions the scenario makes.
ScenarioAdmissions == 150

\* The last_update of the entry of the i-th admission: distinct values in an
\* order that differs from the order of insertion, as entries are re-stamped
\* by the streams they receive.
ScenarioTimestamp(i) == (i * 7) % (ScenarioAdmissions + 1)

\* The last_update values of the entries of a map.
LastUpdates(m) ==
    UNION {{m[i].conns[j].last_update : j \in 1..Len(m[i].conns)} : i \in 1..Len(m)}

\* A server with max_unstaked_connections 100 and both tables empty.
InitAdmit ==
    /\ max_connections_per_peer = 1
    /\ max_staked_connections = 0
    /\ max_unstaked_connections = 100
    /\ open_connections = 0
    /\ table = NewTable
    /\ last_op = Op("new", 0, [attempt |-> 0, before_insert |-> 0, evicted |-> {}], << >>)
    /\ staked_connection_table = NewTable
    /\ unstaked_connection_table = NewTable
    /\ staked_lock = 0
    /\ conn = NoConn
    /\ clients = {}
    /\ StreamerInit

\* prune_unstaked_connections_and_add_new_connection for the next unstaked
\* peer, each from an address of its own: the table is pruned when at
\* capacity, then the entry is added.  last_op records the number of the
\* attempt, the size of the table between the prune and the insertion, and
\* the last_update values of the entries the prune evicted.
AdmitUnstaked ==
    /\ last_op.ret.attempt < ScenarioAdmissions
    /\ max_unstaked_connections > 0
    /\ LET attempt == last_op.ret.attempt + 1
           pruned == prune_unstaked_connection_table(unstaked_connection_table,
                                                     max_unstaked_connections)
           evicted == EvictedGroups(unstaked_connection_table.table, pruned.table)
           r == try_add_connection(pruned,
                    ConnectionTableKey_new(attempt, NoPubkey),
                    ConnectionEntry(0, ScenarioTimestamp(attempt), Unstaked, attempt),
                    max_connections_per_peer)
       IN  /\ unstaked_connection_table' = r.t
           /\ open_connections' = ClientConnectionTracker_drop(open_connections,
                                      DroppedEntries(evicted))
                                  + (IF r.added THEN 1 ELSE 0)
           /\ last_op' = Op("admit_unstaked", 0,
                            [attempt |-> attempt,
                             before_insert |-> pruned.total_size,
                             evicted |-> LastUpdates(evicted)], << >>)
    /\ UNCHANGED << max_connections_per_peer, max_staked_connections,
                    max_unstaked_connections, table, staked_connection_table,
                    staked_lock, conn, clients,
                    packet_queue, packet_batch, total_streams, total_connections,
                    exit, accept_loop,
                 batcher_test, stream_load_ema >>

SpecAdmit == InitAdmit /\ [][AdmitUnstaked]_vars

\* ------------------------------ SpecStake: the stake arithmetic alone

\* The stakes and totals handed to the two functions: zero, the ends of the
\* ranges, stakes above the total and the maximum, shares small enough to
\* fall between the bounds, and quotients that f64 does not hold exactly.
StakeInputs == {0, 1, 10, 13, 38, 39, 100, 999, 1000, 1001, 5000, 6242, 10000, 10001}
TotalStakeInputs == {0, 1, 1000, 6242, 10000}
MaxStakeInputs == {0, 10, 1000, 10000}
MinStakeInputs == {0, 10, 1000, 5000}

InitStake ==
    /\ max_connections_per_peer = 0
    /\ max_staked_connections = 0
    /\ max_unstaked_connections = 0
    /\ open_connections = 0
    /\ table = NewTable
    /\ last_op = Op("new", 0, 0, << >>)
    /\ staked_connection_table = NewTable
    /\ unstaked_connection_table = NewTable
    /\ staked_lock = 0
    /\ conn = NoConn
    /\ clients = {}
    /\ StreamerInit

StakeUnchanged ==
    UNCHANGED << max_connections_per_peer, max_staked_connections,
                 max_unstaked_connections, open_connections, table,
                 staked_connection_table, unstaked_connection_table,
                 staked_lock, conn, clients,
                 packet_queue, packet_batch, total_streams, total_connections,
                 exit, accept_loop,
                 batcher_test, stream_load_ema >>

\* A call of compute_max_allowed_uni_streams: the first one, or one for a
\* staked peer with a larger stake than the call before and the same
\* total_stake.  last_op records the arguments, the value returned, and the
\* stake and value of the call before (None at the first call).
StakeStreams(peer_type, total_stake) ==
    /\ \/ last_op.op = "new"
       \/ /\ last_op.op = "compute_max_allowed_uni_streams"
          /\ last_op.ret.total_stake = total_stake
          /\ last_op.ret.peer_type.staked
          /\ peer_type.staked
          /\ last_op.ret.peer_type.stake < peer_type.stake
    /\ last_op' = Op("compute_max_allowed_uni_streams", 0,
                     [peer_type |-> peer_type, total_stake |-> total_stake,
                      streams |-> compute_max_allowed_uni_streams(peer_type, total_stake),
                      from_stake |-> IF last_op.op = "new" THEN None
                                     ELSE last_op.ret.peer_type.stake,
                      from_streams |-> IF last_op.op = "new" THEN 0
                                       ELSE last_op.ret.streams], << >>)
    /\ StakeUnchanged

\* A call of compute_receive_window_ratio_for_staked_node: the first one, or
\* one with a larger stake than the call before and the same max_stake and
\* min_stake.
StakeRatio(max_stake, min_stake, stake) ==
    /\ \/ last_op.op = "new"
       \/ /\ last_op.op = "compute_receive_window_ratio_for_staked_node"
          /\ last_op.ret.max_stake = max_stake
          /\ last_op.ret.min_stake = min_stake
          /\ last_op.ret.stake < stake
    /\ last_op' = Op("compute_receive_window_ratio_for_staked_node", 0,
                     [max_stake |-> max_stake, min_stake |-> min_stake,
                      stake |-> stake,
                      ratio |-> compute_receive_window_ratio_for_staked_node(
                                    max_stake, min_stake, stake),
                      from_stake |-> IF last_op.op = "new" THEN None
                                     ELSE last_op.ret.stake,
                      from_ratio |-> IF last_op.op = "new" THEN 0
                                     ELSE last_op.ret.ratio], << >>)
    /\ StakeUnchanged

\* The stakes and totals of the snapshots a peer is classified under: small
\* ones on both sides of the ratio of min_stake_ratio, and lamport amounts
\* from 2^53 on, which f64 does not hold exactly.
ClassifyStakes ==
    {LimbsOf(n) : n \in {0, 1, 2, 10, 11}}
        \cup {U64(1, 54, d) : d \in 0..4} \cup {U64(1, 40, 0)}
ClassifyTotals ==
    {LimbsOf(n) : n \in {0, 1, 99, 100, 101, 999, 1000, 1001, 1100, 1101}}
        \cup {U64(100, 54, d) : d \in {0, 1, 100, 128, 129, 200, 256, 384, 400, 401}}
        \cup {U64(100, 40, d) : d \in {0, 1}}

\* setup_connection's classification of a peer, the first call, under a
\* snapshot that holds a stake for the pubkey "A" alone: the parameters
\* handed on, the table the match on peer_type chooses, and the stream bound
\* of a peer handed on as unstaked.
ClassifyPeer(peer, stake, total_stake) ==
    /\ last_op.op = "new"
    /\ LET staked_nodes == [stakes |-> [k \in {"A"} |-> stake],
                            total_stake |-> total_stake]
           params == NewConnectionHandlerParams(peer, staked_nodes)
       IN  last_op' = Op("NewConnectionHandlerParams", 0,
                         [peer |-> peer, stake |-> stake, total_stake |-> total_stake,
                          found |-> get_connection_stake(peer, staked_nodes).some,
                          params |-> params,
                          tbl |-> IF params.peer_type.staked THEN "staked" ELSE "unstaked",
                          max_uni_streams |->
                              IF params.peer_type.staked THEN None
                              ELSE compute_max_allowed_uni_streams(params.peer_type, 0)],
                         << >>)
    /\ StakeUnchanged

StakeNext ==
    \/ \E peer_type \in {Unstaked} \cup {Staked(stake) : stake \in StakeInputs},
          total_stake \in TotalStakeInputs :
          StakeStreams(peer_type, total_stake)
    \/ \E max_stake \in MaxStakeInputs, min_stake \in MinStakeInputs,
          stake \in StakeInputs :
          StakeRatio(max_stake, min_stake, stake)
    \/ \E peer \in Peers, stake \in ClassifyStakes, total_stake \in ClassifyTotals :
          ClassifyPeer(peer, stake, total_stake)

SpecStake == InitStake /\ [][StakeNext]_vars

\* --------------------- SpecStream: the streams of an admitted connection

\* solana_packet::PACKET_DATA_SIZE, QuicServerParams.coalesce_channel_size
\* and solana_perf's PACKETS_PER_BATCH, scaled down, and the streams the
\* peer opens on its connection.
PACKET_DATA_SIZE == 4
coalesce_channel_size == 1
PACKETS_PER_BATCH == 2

\* STREAM_THROTTLING_INTERVAL in ticks of the clock.
STREAM_THROTTLING_INTERVAL == 2

\* The length of handle_connection's array `chunks`.
ChunksPerRead == 4

\* The bytes of a stream are numbered from 1 in the order the peer wrote
\* them: the chunk of len bytes that follows the first offset bytes.
StreamChunk(offset, len) == [i \in 1..len |-> offset + i]

\* The chunks of one read_chunks call that returns chunks of the lengths
\* lens, starting behind offset.
RECURSIVE StreamChunks(_, _)
StreamChunks(offset, lens) ==
    IF lens = << >> THEN << >>
    ELSE << StreamChunk(offset, Head(lens)) >>
             \o StreamChunks(offset + Head(lens), Tail(lens))

\* The lengths of the chunks a peer's streams come in: one byte, as many
\* as the stream window lets through at once, and one byte less.
ChunkLens == {1, PACKET_DATA_SIZE - 1, PACKET_DATA_SIZE}

\* What one read_chunks call can return: no chunk (the stream is finished),
\* or up to ChunksPerRead chunks with at most one byte beyond
\* PACKET_DATA_SIZE in all.
ReadLens ==
    {lens \in UNION {[1..n -> ChunkLens] : n \in 0..ChunksPerRead} :
        SumSeq(lens) <= PACKET_DATA_SIZE + 1}

\* BytesMut::put_slice of every chunk in turn.
RECURSIVE Concat(_)
Concat(chunks) == IF chunks = << >> THEN << >> ELSE Head(chunks) \o Concat(Tail(chunks))

\* The chunks put together last one first.
RECURSIVE ConcatReversed(_)
ConcatReversed(chunks) ==
    IF chunks = << >> THEN << >> ELSE ConcatReversed(Tail(chunks)) \o Head(chunks)

BytesPacket_new(buffer, meta) == [buffer |-> buffer, meta |-> meta]

\* packet_batch_sender copying the chunks in the wrong order.
PacketOfAccumulator_reversed(packet_accumulator) ==
    BytesPacket_new(ConcatReversed(packet_accumulator.chunks), packet_accumulator.meta)

\* packet_batch_sender making a packet of an accumulator: a single chunk is
\* moved, several are copied into one buffer.  (Marking sampled packets with
\* PERF_TRACK_PACKET is left out.)
PacketOfAccumulator(packet_accumulator) ==
    IF Len(packet_accumulator.chunks) = 1
    THEN BytesPacket_new(packet_accumulator.chunks[1], packet_accumulator.meta)
    ELSE BytesPacket_new(Concat(packet_accumulator.chunks), packet_accumulator.meta)

\* Sender::try_send that takes the channel for unbounded.
try_send_unbounded(queue, capacity, disconnected, msg) ==
    IF disconnected THEN [queue |-> queue, err |-> "Disconnected"]
    ELSE [queue |-> Append(queue, msg), err |-> ""]

\* Sender::try_send on a bounded channel: the queue after, and the error.
try_send(queue, capacity, disconnected, msg) ==
    IF disconnected THEN [queue |-> queue, err |-> "Disconnected"]
    ELSE IF Len(queue) >= capacity THEN [queue |-> queue, err |-> "Full"]
    ELSE [queue |-> Append(queue, msg), err |-> ""]

\* The for loop of handle_chunks with >= for >.
RECURSIVE PushChunks_rejects_full_size(_, _)
PushChunks_rejects_full_size(chunks, accum) ==
    IF chunks = << >> THEN [ok |-> TRUE, accum |-> accum]
    ELSE LET sized == [accum EXCEPT !.meta.size = @ + Len(Head(chunks))]
         IN  IF sized.meta.size >= PACKET_DATA_SIZE
             THEN [ok |-> FALSE, accum |-> sized]
             ELSE PushChunks_rejects_full_size(Tail(chunks),
                      [sized EXCEPT !.chunks = Append(@, Head(chunks))])

\* The for loop of handle_chunks: the accumulator after, and whether every
\* chunk fitted.
RECURSIVE PushChunks(_, _)
PushChunks(chunks, accum) ==
    IF chunks = << >> THEN [ok |-> TRUE, accum |-> accum]
    ELSE LET sized == [accum EXCEPT !.meta.size = @ + Len(Head(chunks))]
         IN  IF sized.meta.size > PACKET_DATA_SIZE
             THEN [ok |-> FALSE, accum |-> sized]
             ELSE PushChunks(Tail(chunks),
                             [sized EXCEPT !.chunks = Append(@, Head(chunks))])

\* handle_chunks: Ok(Receiving), Ok(Finished) or Err, the accumulator and
\* the hand-off queue after, and the stats counters the call bumped.
handle_chunks(chunks, accum, queue, disconnected, peer_type) ==
    LET pushed == PushChunks(chunks, accum)
        received == IF pushed.accum.chunks = accum.chunks THEN {}
                    ELSE IF peer_type.staked THEN {"total_staked_chunks_received"}
                    ELSE {"total_unstaked_chunks_received"}
        sent == try_send(queue, coalesce_channel_size, disconnected, pushed.accum)
    IN  IF ~pushed.ok
        THEN [state |-> "Err", accum |-> pushed.accum, queue |-> queue,
              stats |-> received \cup {"invalid_stream_size"}]
        ELSE IF Len(chunks) # 0
        THEN [state |-> "Receiving", accum |-> pushed.accum, queue |-> queue,
              stats |-> received]
        ELSE IF accum.chunks = << >>
        THEN [state |-> "Err", accum |-> accum, queue |-> queue,
              stats |-> {"total_packet_batches_none"}]
        ELSE [state |-> "Finished", accum |-> accum, queue |-> sent.queue,
              stats |-> IF sent.err = "Full"
                        THEN {"total_handle_chunk_to_packet_batcher_send_err",
                              "total_handle_chunk_to_packet_batcher_send_full_err"}
                        ELSE IF sent.err = "Disconnected"
                        THEN {"total_handle_chunk_to_packet_batcher_send_err",
                              "total_handle_chunk_to_packet_batcher_send_disconnected_err"}
                        ELSE {"total_packets_sent_for_batching",
                              "total_bytes_sent_for_batching",
                              "total_chunks_sent_for_batching",
                              IF peer_type.staked
                              THEN "total_staked_packets_sent_for_batching"
                              ELSE "total_unstaked_packets_sent_for_batching"}]

\* What last_op records of a step of a stream handler or of the batcher:
\* the connection, what handle_chunks returned (or what else ended the wait
\* for chunks), the chunks the step read, the stats counters it bumped, the
\* close code it sent (0: none), the table entries the handler removed and
\* the packet the batcher made.
StreamEvent(c, state, chunks, stats, close, removed, packet) ==
    [c |-> c, state |-> state, chunks |-> chunks, stats |-> stats,
     close |-> close, removed |-> removed, packet |-> packet]

NoPacket == BytesPacket_new(<< >>, Meta(NoPeer, Unstaked))

\* The table an admitted peer's entry is in.
TableOf(peer) == IF HandlerParams(peer).peer_type.staked THEN "staked" ELSE "unstaked"

\* One connection, admitted: its entry is in the table of its peer type and
\* its handler waits for the first stream.
InitStream ==
    /\ max_connections_per_peer = 1
    /\ max_staked_connections = 1
    /\ max_unstaked_connections = 1
    /\ open_connections = 1
    /\ table = NewTable
    /\ last_op = Op("new", 0, StreamEvent(0, "", << >>, {}, 0, 0, NoPacket), << >>)
    /\ staked_lock = 0
    /\ \E peer \in Peers :
          LET params == HandlerParams(peer)
              added == try_add_connection(NewTable,
                           ConnectionTableKey_new(peer.ip, params.remote_pubkey),
                           ConnectionEntry(peer.port, 0, params.peer_type, 1),
                           max_connections_per_peer).t
          IN  /\ staked_connection_table =
                     IF params.peer_type.staked THEN added ELSE NewTable
              /\ unstaked_connection_table =
                     IF params.peer_type.staked THEN NewTable ELSE added
              /\ conn = [c \in {1} |->
                            [IdleConn EXCEPT !.pc = "handler", !.peer = peer,
                                             !.tbl = TableOf(peer)]]
              /\ clients = {peer.pubkey}
    /\ StreamerInit

\* The store to last_update that handle_connection makes through the Arc it
\* shares with its table entry.
StoreLastUpdate(t, c, now) ==
    [t EXCEPT !.table =
        [i \in 1..Len(t.table) |->
            [t.table[i] EXCEPT !.conns =
                [j \in 1..Len(t.table[i].conns) |->
                    IF t.table[i].conns[j].connection = c
                    THEN [t.table[i].conns[j] EXCEPT !.last_update = now]
                    ELSE t.table[i].conns[j]]]]]

\* HandlerReturn without the fetch_sub on total_connections at the end of
\* handle_connection.
HandlerReturn_without_fetch_sub(c, cn, op, ev) ==
    LET peer == conn[c].peer
        key == ConnectionTableKey_new(peer.ip, HandlerParams(peer).remote_pubkey)
        t == IF conn[c].tbl = "staked" THEN staked_connection_table
             ELSE unstaked_connection_table
        r == remove_connection(t, key, peer.port, c)
    IN  /\ conn[c].tbl = "staked" => staked_lock = 0
        /\ IF conn[c].tbl = "staked"
           THEN /\ staked_connection_table' = r.t
                /\ UNCHANGED unstaked_connection_table
           ELSE /\ unstaked_connection_table' = r.t
                /\ UNCHANGED staked_connection_table
        /\ open_connections' = ClientConnectionTracker_drop(open_connections, r.ret)
        /\ conn' = Finish(cn, c)
        /\ UNCHANGED total_connections
        /\ last_op' = Op(op, 0, [ev EXCEPT !.removed = r.ret], << >>)

\* handle_connection behind its loop: remove_connection on the handler's
\* table, then the task returns.  cn is conn as the step leaves it, op and
\* ev what last_op records of the step.
HandlerReturn(c, cn, op, ev) ==
    LET peer == conn[c].peer
        key == ConnectionTableKey_new(peer.ip, HandlerParams(peer).remote_pubkey)
        t == IF conn[c].tbl = "staked" THEN staked_connection_table
             ELSE unstaked_connection_table
        r == remove_connection(t, key, peer.port, c)
    IN  /\ conn[c].tbl = "staked" => staked_lock = 0
        /\ IF conn[c].tbl = "staked"
           THEN /\ staked_connection_table' = r.t
                /\ UNCHANGED unstaked_connection_table
           ELSE /\ unstaked_connection_table' = r.t
                /\ UNCHANGED staked_connection_table
        /\ open_connections' = ClientConnectionTracker_drop(open_connections, r.ret)
        /\ conn' = Finish(cn, c)
        /\ total_connections' = total_connections - 1
        /\ last_op' = Op(op, 0, [ev EXCEPT !.removed = r.ret], << >>)

StreamConfigUnchanged ==
    UNCHANGED << max_connections_per_peer, max_staked_connections,
                 max_unstaked_connections, table, clients, staked_lock,
                 packet_batch, exit, accept_loop,
                 batcher_test, stream_load_ema >>

\* The streams the handlers have accepted.
StreamsAccepted == SumSeq([c \in DOMAIN conn |-> conn[c].streams])

\* ConnectionStreamCounter::reset_throttling_params_if_needed: once more
\* than the interval has gone by since last_throttling_instant, the count
\* starts again at 0 and the interval at now.
reset_throttling_params_if_needed(cn) ==
    IF cn.elapsed > STREAM_THROTTLING_INTERVAL
    THEN [cn EXCEPT !.stream_count = 0, !.elapsed = 0]
    ELSE cn

\* throttle_duration: what is left of the interval.
throttle_duration(cn) == saturating_sub(STREAM_THROTTLING_INTERVAL, cn.elapsed)

\* The handler counting the stream it is about to read and making its
\* accumulator.
CountStream(cn) ==
    [cn EXCEPT !.pc = "stream",
               !.stream_count = @ + 1,
               !.streams = @ + 1,
               !.offset = 0,
               !.accum = PacketAccumulator_new(
                             Meta(cn.peer, HandlerParams(cn.peer).peer_type))]

\* The throttling check with > for >=.
accept_uni_throttles_above_allowance(c) ==
    /\ conn[c].pc = "handler"
    /\ StreamsAccepted < MaxStreams
    /\ LET counter == reset_throttling_params_if_needed(conn[c])
       IN  IF /\ counter.stream_count > stream_load_ema
              /\ throttle_duration(counter) # 0
           THEN /\ conn' = [conn EXCEPT ![c] =
                               [counter EXCEPT !.pc = "throttled",
                                               !.sleep_left = throttle_duration(counter)]]
                /\ UNCHANGED total_streams
                /\ last_op' = Op("accept_uni", 0,
                                 StreamEvent(c, "throttled", << >>,
                                             {"throttled_streams"}, 0, 0, NoPacket), << >>)
           ELSE /\ conn' = [conn EXCEPT ![c] = CountStream(counter)]
                /\ total_streams' = total_streams + 1
                /\ last_op' = Op("accept_uni", 0,
                                 StreamEvent(c, "", << >>,
                                             {"total_streams", "total_new_streams"},
                                             0, 0, NoPacket), << >>)
    /\ UNCHANGED << open_connections, staked_connection_table,
                    unstaked_connection_table, packet_queue >>
    /\ UNCHANGED total_connections
    /\ StreamConfigUnchanged

\* handle_connection from accept_uni returning a stream to its next
\* suspension: with the counter of the interval at or over the allowance and
\* time left of the interval, the handler holds the stream and sleeps for
\* what is left; otherwise the stream is counted, gets a fresh accumulator
\* and the handler waits for its chunks.  A stream the peer opened before
\* the connection was closed can still be accepted after.  The peers open
\* MaxStreams streams in all.  (The counter is shared by the connections of
\* one key; here a key has one connection with a handler.)
accept_uni(c) ==
    /\ conn[c].pc = "handler"
    /\ StreamsAccepted < MaxStreams
    /\ LET counter == reset_throttling_params_if_needed(conn[c])
       IN  IF /\ counter.stream_count >= stream_load_ema
              /\ throttle_duration(counter) # 0
           THEN /\ conn' = [conn EXCEPT ![c] =
                               [counter EXCEPT !.pc = "throttled",
                                               !.sleep_left = throttle_duration(counter)]]
                /\ UNCHANGED total_streams
                /\ last_op' = Op("accept_uni", 0,
                                 StreamEvent(c, "throttled", << >>,
                                             {"throttled_streams"}, 0, 0, NoPacket), << >>)
           ELSE /\ conn' = [conn EXCEPT ![c] = CountStream(counter)]
                /\ total_streams' = total_streams + 1
                /\ last_op' = Op("accept_uni", 0,
                                 StreamEvent(c, "", << >>,
                                             {"total_streams", "total_new_streams"},
                                             0, 0, NoPacket), << >>)
    /\ UNCHANGED << open_connections, staked_connection_table,
                    unstaked_connection_table, packet_queue >>
    /\ UNCHANGED total_connections
    /\ StreamConfigUnchanged

\* The handler waking from its throttling sleep and giving the stream up
\* for the next one.
throttle_sleep_over_drops_stream(c) ==
    /\ conn[c].pc = "throttled"
    /\ conn[c].sleep_left = 0
    /\ conn' = [conn EXCEPT ![c].pc = "handler"]
    /\ last_op' = Op("throttle_sleep_over", 0,
                     StreamEvent(c, "", << >>, {}, 0, 0, NoPacket), << >>)
    /\ UNCHANGED << open_connections, staked_connection_table,
                    unstaked_connection_table, packet_queue, total_streams >>
    /\ UNCHANGED total_connections
    /\ StreamConfigUnchanged

\* The handler waking from its throttling sleep: the stream it held is
\* counted, gets a fresh accumulator and the handler waits for its chunks.
throttle_sleep_over(c) ==
    /\ conn[c].pc = "throttled"
    /\ conn[c].sleep_left = 0
    /\ conn' = [conn EXCEPT ![c] = CountStream(conn[c])]
    /\ total_streams' = total_streams + 1
    /\ last_op' = Op("throttle_sleep_over", 0,
                     StreamEvent(c, "", << >>, {"total_streams", "total_new_streams"},
                                 0, 0, NoPacket), << >>)
    /\ UNCHANGED << open_connections, staked_connection_table,
                    unstaked_connection_table, packet_queue >>
    /\ UNCHANGED total_connections
    /\ StreamConfigUnchanged

\* A tick of the clock: the intervals grow older (beyond the interval's
\* length their age is not told apart) and the sleeps shorter.
Tick ==
    /\ conn' = [c \in DOMAIN conn |->
                   [conn[c] EXCEPT
                       !.elapsed = Min2(@ + 1, STREAM_THROTTLING_INTERVAL + 1),
                       !.sleep_left = saturating_sub(@, 1)]]
    /\ conn' # conn
    /\ last_op' = Op("tick", 0, StreamEvent(0, "", << >>, {}, 0, 0, NoPacket), << >>)
    /\ UNCHANGED << open_connections, staked_connection_table,
                    unstaked_connection_table, packet_queue, total_streams >>
    /\ UNCHANGED total_connections
    /\ StreamConfigUnchanged

\* One turn of handle_connection's inner loop in which read_chunks returns
\* before the timeout: handle_chunks takes the chunks; the stream goes on,
\* or it is finished and the handler turns to the next stream, or it is
\* invalid and the handler closes the connection and leaves both loops.
read_chunks(c) ==
    /\ conn[c].pc = "stream"
    /\ \E lens \in ReadLens :
         LET peer_type == HandlerParams(conn[c].peer).peer_type
             chunks == StreamChunks(conn[c].offset, lens)
             r == handle_chunks(chunks, conn[c].accum, packet_queue, exit, peer_type)
             ev == StreamEvent(c, r.state, chunks, r.stats, 0, 0, NoPacket)
         IN  CASE r.state = "Receiving" ->
                    /\ conn' = [conn EXCEPT ![c].accum = r.accum,
                                            ![c].offset = @ + SumSeq(lens)]
                    /\ last_op' = Op("read_chunks", 0, ev, << >>)
                    /\ UNCHANGED << open_connections, staked_connection_table,
                                    unstaked_connection_table, packet_queue,
                                    total_streams, total_connections >>
               [] r.state = "Finished" ->
                    /\ conn' = [conn EXCEPT ![c].pc = "handler",
                                            ![c].accum = NoAccum,
                                            ![c].offset = 0]
                    /\ packet_queue' = r.queue
                    /\ total_streams' = total_streams - 1
                    /\ IF conn[c].tbl = "staked"
                       THEN /\ staked_connection_table' =
                                   StoreLastUpdate(staked_connection_table, c, 1)
                            /\ UNCHANGED unstaked_connection_table
                       ELSE /\ unstaked_connection_table' =
                                   StoreLastUpdate(unstaked_connection_table, c, 1)
                            /\ UNCHANGED staked_connection_table
                    /\ last_op' = Op("read_chunks", 0, ev, << >>)
                    /\ UNCHANGED << open_connections, total_connections >>
               [] r.state = "Err" ->
                    /\ total_streams' = total_streams - 1
                    /\ HandlerReturn(c,
                          [conn EXCEPT ![c].close_code =
                              IF @ = 0 THEN CONNECTION_CLOSE_CODE_INVALID_STREAM ELSE @],
                          "read_chunks",
                          [ev EXCEPT !.close = CONNECTION_CLOSE_CODE_INVALID_STREAM])
                    /\ UNCHANGED packet_queue
    /\ StreamConfigUnchanged

\* The turn of the inner loop that gives a stream up, without the
\* fetch_sub on total_streams behind the loop.
read_chunks_failed_keeps_count(c) ==
    /\ conn[c].pc = "stream"
    /\ \E counter \in {"total_stream_read_errors", "total_stream_read_timeouts"} :
         last_op' = Op("read_chunks_failed", 0,
                       StreamEvent(c, counter, << >>, {counter}, 0, 0, NoPacket), << >>)
    /\ conn' = [conn EXCEPT ![c].pc = "handler", ![c].accum = NoAccum,
                            ![c].offset = 0]
    /\ UNCHANGED << open_connections, staked_connection_table,
                    unstaked_connection_table, packet_queue, total_streams >>
    /\ UNCHANGED total_connections
    /\ StreamConfigUnchanged

\* One turn of the inner loop in which read_chunks returns an error or the
\* timeout elapses first: the stream is given up and the handler turns to
\* the next one.
read_chunks_failed(c) ==
    /\ conn[c].pc = "stream"
    /\ \E counter \in {"total_stream_read_errors", "total_stream_read_timeouts"} :
         last_op' = Op("read_chunks_failed", 0,
                       StreamEvent(c, counter, << >>, {counter}, 0, 0, NoPacket), << >>)
    /\ conn' = [conn EXCEPT ![c].pc = "handler", ![c].accum = NoAccum,
                            ![c].offset = 0]
    /\ total_streams' = total_streams - 1
    /\ UNCHANGED << open_connections, staked_connection_table,
                    unstaked_connection_table, packet_queue >>
    /\ UNCHANGED total_connections
    /\ StreamConfigUnchanged

\* One turn of the inner loop in which the entry's token is found
\* cancelled: the stream is given up with what was read of it, and the
\* handler is back at the head of its outer loop.
read_chunks_cancelled(c) ==
    /\ conn[c].pc = "stream"
    /\ conn[c].cancelled
    /\ conn' = [conn EXCEPT ![c].pc = "handler", ![c].accum = NoAccum,
                            ![c].offset = 0]
    /\ total_streams' = total_streams - 1
    /\ last_op' = Op("read_chunks_cancelled", 0,
                     StreamEvent(c, "cancelled", << >>, {}, 0, 0, NoPacket), << >>)
    /\ UNCHANGED << open_connections, staked_connection_table,
                    unstaked_connection_table, packet_queue >>
    /\ UNCHANGED total_connections
    /\ StreamConfigUnchanged

\* handle_connection leaving its outer loop because accept_uni returned an
\* error (the peer went away or the connection is closed) or because the
\* entry's token is cancelled.
accept_uni_failed(c) ==
    /\ conn[c].pc = "handler"
    /\ HandlerReturn(c, conn, "accept_uni_failed",
                     StreamEvent(c, IF conn[c].cancelled THEN "cancelled" ELSE "",
                                 << >>, {}, 0, 0, NoPacket))
    /\ UNCHANGED << packet_queue, total_streams >>
    /\ StreamConfigUnchanged

StreamHandlersUnchanged ==
    UNCHANGED << max_connections_per_peer, max_staked_connections,
                 max_unstaked_connections, open_connections, table,
                 staked_connection_table, unstaked_connection_table,
                 staked_lock, conn, clients, total_streams, total_connections,
                 accept_loop,
                 stream_load_ema >>

\* packet_batch_sender receiving an accumulator from the hand-off queue: it
\* makes the packet and pushes it to the batch.
packet_batch_sender_recv ==
    /\ ~exit
    /\ Len(packet_batch) < PACKETS_PER_BATCH
    /\ packet_queue # << >>
    /\ packet_queue' = Tail(packet_queue)
    /\ packet_batch' = Append(packet_batch, PacketOfAccumulator(Head(packet_queue)))
    /\ last_op' = Op("packet_batch_sender_recv", 0,
                     StreamEvent(0, "", Head(packet_queue).chunks,
                                 {"total_chunks_processed_by_batcher"}, 0, 0,
                                 PacketOfAccumulator(Head(packet_queue))), << >>)
    /\ UNCHANGED << exit, batcher_test, stream_load_ema >>
    /\ StreamHandlersUnchanged

\* packet_batch_sender that returns from a disconnected consumer without
\* the store to exit.
packet_batch_sender_send_without_exit ==
    /\ ~exit
    /\ packet_batch # << >>
    /\ \E err \in {"", "Full", "Disconnected"} :
         last_op' = Op("packet_batch_sender_send", 0,
                       StreamEvent(0, err, << >>,
                                   IF err = "" THEN {"total_packet_batches_sent",
                                                     "total_packets_sent_to_consumer"}
                                   ELSE {"total_packet_batch_send_err"},
                                   0, 0, NoPacket), << >>)
    /\ packet_batch' = << >>
    /\ UNCHANGED << packet_queue, exit, batcher_test, stream_load_ema >>
    /\ StreamHandlersUnchanged

\* packet_batch_sender that sends its batch on and goes on with the same
\* batch instead of a new one.
packet_batch_sender_send_keeps_batch ==
    /\ ~exit
    /\ packet_batch # << >>
    /\ \E err \in IF batcher_test.running THEN {""}
                   ELSE {"", "Full", "Disconnected"} :
         /\ exit' = (err = "Disconnected")
         /\ last_op' = Op("packet_batch_sender_send", 0,
                          StreamEvent(0, err, << >>,
                                      IF err = "" THEN {"total_packet_batches_sent",
                                                        "total_packets_sent_to_consumer"}
                                      ELSE {"total_packet_batch_send_err"},
                                      0, 0, NoPacket), << >>)
         /\ packet_queue' = IF err = "Disconnected" THEN << >> ELSE packet_queue
    /\ batcher_test' = IF batcher_test.running
                       THEN [batcher_test EXCEPT !.pkt_batch_receiver =
                                                    Append(@, packet_batch)]
                       ELSE batcher_test
    /\ packet_batch' = packet_batch
    /\ StreamHandlersUnchanged

\* packet_batch_sender sending its batch on, full or after the coalescing
\* time: the consumer's channel takes it, or is full, or is disconnected,
\* and then the batcher sets exit and returns, dropping its receiver.  The
\* channel of test_packet_batcher is unbounded and its receiver alive.
packet_batch_sender_send ==
    /\ ~exit
    /\ packet_batch # << >>
    /\ \E err \in IF batcher_test.running THEN {""}
                   ELSE {"", "Full", "Disconnected"} :
         /\ exit' = (err = "Disconnected")
         /\ last_op' = Op("packet_batch_sender_send", 0,
                          StreamEvent(0, err, << >>,
                                      IF err = "" THEN {"total_packet_batches_sent",
                                                        "total_packets_sent_to_consumer"}
                                      ELSE {"total_packet_batch_send_err"},
                                      0, 0, NoPacket), << >>)
         /\ packet_queue' = IF err = "Disconnected" THEN << >> ELSE packet_queue
    /\ batcher_test' = IF batcher_test.running
                       THEN [batcher_test EXCEPT !.pkt_batch_receiver =
                                                    Append(@, packet_batch)]
                       ELSE batcher_test
    /\ packet_batch' = << >>
    /\ StreamHandlersUnchanged

StreamNext ==
    \/ \E c \in DOMAIN conn :
          \/ accept_uni(c)
          \/ read_chunks(c)
          \/ read_chunks_failed(c)
          \/ accept_uni_failed(c)
    \/ packet_batch_sender_recv
    \/ packet_batch_sender_send

SpecStream == InitStream /\ [][StreamNext]_vars

\* ------------------------------ SpecThrottle: the throttled handler

\* The connection of test_throttling_check_no_packet_drop: a peer without
\* stake, admitted as in InitServer, and a load estimator that allows it
\* fewer streams per interval than it opens, or as many.  The batcher is
\* left out: the hand-off queue keeps what it is given.
InitThrottle ==
    /\ max_connections_per_peer = 1
    /\ max_staked_connections = 1
    /\ max_unstaked_connections = 1
    /\ open_connections = 1
    /\ table = NewTable
    /\ last_op = Op("new", 0, StreamEvent(0, "", << >>, {}, 0, 0, NoPacket), << >>)
    /\ staked_lock = 0
    /\ staked_connection_table = NewTable
    /\ \E peer \in {p \in Peers : p.pubkey = NoPubkey} :
          /\ unstaked_connection_table =
                 try_add_connection(NewTable,
                     ConnectionTableKey_new(peer.ip, HandlerParams(peer).remote_pubkey),
                     ConnectionEntry(peer.port, 0, HandlerParams(peer).peer_type, 1),
                     max_connections_per_peer).t
          /\ conn = [c \in {1} |->
                        [IdleConn EXCEPT !.pc = "handler", !.peer = peer,
                                         !.tbl = TableOf(peer)]]
          /\ clients = {peer.pubkey}
    /\ packet_queue = << >>
    /\ packet_batch = << >>
    /\ total_streams = 0
    /\ total_connections = Cardinality(RunningHandlers)
    /\ exit = FALSE
    /\ accept_loop = "select"
    /\ batcher_test = NoTest
    /\ stream_load_ema \in 1..MaxStreams

ThrottleNext ==
    \/ \E c \in DOMAIN conn :
          \/ accept_uni(c)
          \/ throttle_sleep_over(c)
          \/ read_chunks(c)
          \/ read_chunks_failed(c)
          \/ accept_uni_failed(c)
    \/ Tick

SpecThrottle == InitThrottle /\ [][ThrottleNext]_vars

\* The clock goes on and a handler whose sleep is over is polled.
SpecThrottleFair ==
    /\ SpecThrottle
    /\ WF_vars(Tick)
    /\ \A c \in {1} : WF_vars(throttle_sleep_over(c))

\* ------------------------ SpecCancel: eviction under a running handler

\* Two connection attempts of the one peer without a certificate, for
\* the configurations in which the second is refused at the peer's cap,
\* evicts the first, shares its key and port with it, or finds the unstaked
\* table disabled.
InitCancel ==
    /\ max_connections_per_peer \in 1..2
    /\ max_staked_connections = 1
    /\ max_unstaked_connections \in 0..2
    /\ open_connections = 0
    /\ table = NewTable
    /\ last_op = Op("new", 0, StreamEvent(0, "", << >>, {}, 0, 0, NoPacket), << >>)
    /\ staked_lock = 0
    /\ staked_connection_table = NewTable
    /\ unstaked_connection_table = NewTable
    /\ conn = [c \in 1..2 |-> IdleConn]
    /\ clients = {NoPubkey}
    /\ StreamerInit

\* The peer opens its streams on its first connection.
CancelNext ==
    \/ \E c \in DOMAIN conn :
          \/ run_server(c)
          \/ setup_connection_rejected(c)
          \/ setup_connection_unstaked(c)
          \/ accept_uni_failed(c)
    \/ \E c \in {1} :
          \/ accept_uni(c)
          \/ read_chunks(c)
          \/ read_chunks_failed(c)
          \/ read_chunks_cancelled(c)

SpecCancel == InitCancel /\ [][CancelNext]_vars

\* select! polls its branches in random order: a handler whose token is
\* cancelled does not take the other branch for ever.
SpecCancelFair ==
    /\ SpecCancel
    /\ \A c \in 1..2 : /\ WF_vars(accept_uni_failed(c))
                       /\ WF_vars(read_chunks_cancelled(c))

\* ------------------------------- SpecBatcher: test_packet_batcher

\* The test's num_packets (1000 in the test).
num_packets == 6

\* The k-th accumulator the test sends: default metadata and one chunk.
\* (The test's chunks are all "Hello world"; here the chunk is the byte k,
\* which tells the packets apart.)
TestAccumulator(k) ==
    LET bytes == << k >>
    IN  [meta |-> [Meta(NoPeer, Unstaked) EXCEPT !.size = Len(bytes)],
         chunks |-> << bytes >>]

TestUnchanged ==
    UNCHANGED << max_connections_per_peer, max_staked_connections,
                 max_unstaked_connections, open_connections, table,
                 staked_connection_table, unstaked_connection_table,
                 staked_lock, conn, clients, total_streams, total_connections,
                 accept_loop,
                 stream_load_ema >>

\* The test's for loop: ptk_sender.send on the unbounded hand-off channel.
test_send ==
    /\ batcher_test.running
    /\ batcher_test.sent < num_packets
    /\ packet_queue' = Append(packet_queue, TestAccumulator(batcher_test.sent + 1))
    /\ batcher_test' = [batcher_test EXCEPT !.sent = @ + 1]
    /\ last_op' = Op("test_send", 0,
                     StreamEvent(0, "", TestAccumulator(batcher_test.sent + 1).chunks,
                                 {}, 0, 0, NoPacket), << >>)
    /\ UNCHANGED << packet_batch, exit >>
    /\ TestUnchanged

\* The test's while loop taking a batch: i += batch.len().  (An empty
\* channel makes it sleep and try again.)
test_try_recv ==
    /\ batcher_test.running
    /\ batcher_test.sent = num_packets
    /\ batcher_test.i < num_packets
    /\ batcher_test.pkt_batch_receiver # << >>
    /\ batcher_test' = [batcher_test EXCEPT
                           !.pkt_batch_receiver = Tail(@),
                           !.i = @ + Len(Head(batcher_test.pkt_batch_receiver))]
    /\ last_op' = Op("test_try_recv", 0,
                     StreamEvent(0, "", << >>, {}, 0, 0, NoPacket), << >>)
    /\ UNCHANGED << packet_queue, packet_batch, exit >>
    /\ TestUnchanged

\* The end of the test: every packet is counted, exit is stored and the
\* sender dropped, which makes packet_batch_sender return.
test_exit ==
    /\ batcher_test.running
    /\ batcher_test.sent = num_packets
    /\ batcher_test.i >= num_packets
    /\ ~exit
    /\ exit' = TRUE
    /\ last_op' = Op("test_exit", 0,
                     StreamEvent(0, "", << >>, {}, 0, 0, NoPacket), << >>)
    /\ UNCHANGED << packet_queue, packet_batch, batcher_test, stream_load_ema >>
    /\ TestUnchanged

\* The test after thread::spawn: both channels empty, nothing sent.
InitBatcher ==
    /\ max_connections_per_peer = 0
    /\ max_staked_connections = 0
    /\ max_unstaked_connections = 0
    /\ open_connections = 0
    /\ table = NewTable
    /\ last_op = Op("new", 0, StreamEvent(0, "", << >>, {}, 0, 0, NoPacket), << >>)
    /\ staked_connection_table = NewTable
    /\ unstaked_connection_table = NewTable
    /\ staked_lock = 0
    /\ conn = NoConn
    /\ clients = {}
    /\ packet_queue = << >>
    /\ packet_batch = << >>
    /\ total_streams = 0
    /\ total_connections = Cardinality(RunningHandlers)
    /\ exit = FALSE
    /\ accept_loop = "select"
    /\ batcher_test = [NoTest EXCEPT !.running = TRUE]
    /\ stream_load_ema = MaxStreams + 1

BatcherNext ==
    \/ test_send
    \/ packet_batch_sender_recv
    \/ packet_batch_sender_send
    \/ test_try_recv
    \/ test_exit

SpecBatcher == InitBatcher /\ [][BatcherNext]_vars

\* The batcher's thread and the test's task both run: recv returns once
\* an accumulator is queued, the coalescing time runs out, and the test's
\* loops go on.
SpecBatcherFair ==
    /\ SpecBatcher
    /\ WF_vars(test_send)
    /\ WF_vars(packet_batch_sender_recv)
    /\ WF_vars(packet_batch_sender_send)
    /\ WF_vars(test_try_recv)

\* --------------- SpecCoalesce: packet_batch_sender's loop and its clock

\* The latest time the clock reaches.
MaxNow == 5

\* The inner loop's test that sends the batch on, without the wait for the
\* batch to fill or for the coalescing time.
BatchIsDue_when_not_empty(batch, elapsed, coalesce) == batch # << >>

\* The inner loop's test that sends the batch on.
BatchIsDue(batch, elapsed, coalesce) ==
    \/ Len(batch) >= PACKETS_PER_BATCH
    \/ (batch # << >> /\ elapsed >= coalesce)

\* batch_start_time.elapsed() at the top of the inner loop.
BatchElapsed == batcher_test.now - batcher_test.batch_start_time

\* Time passing.
Instant_now_advances ==
    /\ batcher_test.now < MaxNow
    /\ batcher_test' = [batcher_test EXCEPT !.now = @ + 1]
    /\ last_op' = Op("Instant_now_advances", 0,
                     StreamEvent(0, "", << >>, {}, 0, 0, NoPacket), << >>)
    /\ UNCHANGED << packet_queue, packet_batch, exit >>
    /\ TestUnchanged

\* An iteration of the inner loop that finds the batch due and sends it.
packet_batch_sender_due ==
    /\ ~batcher_test.receiving
    /\ BatchIsDue(packet_batch, BatchElapsed, batcher_test.coalesce)
    /\ packet_batch_sender_send

\* An iteration of the inner loop that finds the batch not due and calls
\* recv_timeout with the rest of the coalescing time, or recv when the
\* batch is empty.
packet_batch_sender_waits ==
    /\ ~exit
    /\ ~batcher_test.receiving
    /\ ~BatchIsDue(packet_batch, BatchElapsed, batcher_test.coalesce)
    /\ batcher_test' = [batcher_test EXCEPT !.receiving = TRUE]
    /\ last_op' = Op("packet_batch_sender_waits", 0,
                     StreamEvent(0, "", << >>, {}, 0, 0, NoPacket), << >>)
    /\ UNCHANGED << packet_queue, packet_batch, exit >>
    /\ TestUnchanged

\* recv or recv_timeout returning an accumulator: batch_start_time is set
\* when the batch is empty, and the packet is made and pushed.
packet_batch_sender_received ==
    /\ batcher_test.receiving
    /\ packet_queue # << >>
    /\ packet_queue' = Tail(packet_queue)
    /\ packet_batch' = Append(packet_batch, PacketOfAccumulator(Head(packet_queue)))
    /\ batcher_test' = [batcher_test EXCEPT
                           !.receiving = FALSE,
                           !.batch_start_time = IF packet_batch = << >>
                                                THEN batcher_test.now ELSE @]
    /\ last_op' = Op("packet_batch_sender_recv", 0,
                     StreamEvent(0, "", Head(packet_queue).chunks,
                                 {"total_chunks_processed_by_batcher"}, 0, 0,
                                 PacketOfAccumulator(Head(packet_queue))), << >>)
    /\ UNCHANGED exit
    /\ TestUnchanged

\* recv_timeout(coalesce - elapsed) running out with nothing received.
packet_batch_sender_recv_timeout ==
    /\ batcher_test.receiving
    /\ packet_batch # << >>
    /\ batcher_test.now >= batcher_test.batch_start_time + batcher_test.coalesce
    /\ batcher_test' = [batcher_test EXCEPT !.receiving = FALSE]
    /\ last_op' = Op("packet_batch_sender_recv_timeout", 0,
                     StreamEvent(0, "Timeout", << >>, {}, 0, 0, NoPacket), << >>)
    /\ UNCHANGED << packet_queue, packet_batch, exit >>
    /\ TestUnchanged

\* test_packet_batcher with a coalescing time of up to two milliseconds
\* (the test's is DEFAULT_TPU_COALESCE) and a clock.
InitCoalesce ==
    /\ max_connections_per_peer = 0
    /\ max_staked_connections = 0
    /\ max_unstaked_connections = 0
    /\ open_connections = 0
    /\ table = NewTable
    /\ last_op = Op("new", 0, StreamEvent(0, "", << >>, {}, 0, 0, NoPacket), << >>)
    /\ staked_connection_table = NewTable
    /\ unstaked_connection_table = NewTable
    /\ staked_lock = 0
    /\ conn = NoConn
    /\ clients = {}
    /\ packet_queue = << >>
    /\ packet_batch = << >>
    /\ total_streams = 0
    /\ total_connections = Cardinality(RunningHandlers)
    /\ exit = FALSE
    /\ accept_loop = "select"
    /\ \E coalesce \in 0..2 :
          batcher_test = [NoTest EXCEPT !.running = TRUE, !.coalesce = coalesce]
    /\ stream_load_ema = MaxStreams + 1

CoalesceNext ==
    \/ test_send
    \/ Instant_now_advances
    \/ packet_batch_sender_due
    \/ packet_batch_sender_waits
    \/ packet_batch_sender_received
    \/ packet_batch_sender_recv_timeout
    \/ test_try_recv
    \/ test_exit

SpecCoalesce == InitCoalesce /\ [][CoalesceNext]_vars

\* ------------- SpecServer: the accept loop, the handlers and the batcher

\* run_server's loop waking from its select and going back to it without
\* the test of exit.
run_server_returns_without_test ==
    /\ accept_loop = "select"
    /\ exit
    /\ accept_loop' = "select"
    /\ last_op' = Op("run_server_returns", 0, Event(0, "", << >>, 0, 0), << >>)
    /\ UNCHANGED << max_connections_per_peer, max_staked_connections,
                    max_unstaked_connections, open_connections, table,
                    staked_connection_table, unstaked_connection_table,
                    staked_lock, conn, clients, packet_queue, packet_batch,
                    total_streams, total_connections, exit,
                    batcher_test, stream_load_ema >>

\* run_server's loop waking from its select (an Incoming it went through,
\* or the timeout) to find exit set: run_server returns.
run_server_returns ==
    /\ accept_loop = "select"
    /\ exit
    /\ accept_loop' = "returned"
    /\ last_op' = Op("run_server_returns", 0, Event(0, "", << >>, 0, 0), << >>)
    /\ UNCHANGED << max_connections_per_peer, max_staked_connections,
                    max_unstaked_connections, open_connections, table,
                    staked_connection_table, unstaked_connection_table,
                    staked_lock, conn, clients, packet_queue, packet_batch,
                    total_streams, total_connections, exit,
                    batcher_test, stream_load_ema >>

\* One connection admitted as in InitStream, its peer without a
\* certificate, and a second attempt to come from the same peer.
InitServer ==
    /\ max_connections_per_peer = 1
    /\ max_staked_connections = 1
    /\ max_unstaked_connections = 1
    /\ open_connections = 1
    /\ table = NewTable
    /\ last_op = Op("new", 0, StreamEvent(0, "", << >>, {}, 0, 0, NoPacket), << >>)
    /\ staked_lock = 0
    /\ staked_connection_table = NewTable
    /\ \E peer \in {p \in Peers : p.pubkey = NoPubkey} :
          /\ unstaked_connection_table =
                 try_add_connection(NewTable,
                     ConnectionTableKey_new(peer.ip, HandlerParams(peer).remote_pubkey),
                     ConnectionEntry(peer.port, 0, HandlerParams(peer).peer_type, 1),
                     max_connections_per_peer).t
          /\ conn = [c \in 1..2 |->
                        IF c = 1
                        THEN [IdleConn EXCEPT !.pc = "handler", !.peer = peer,
                                              !.tbl = TableOf(peer)]
                        ELSE IdleConn]
          /\ clients = {peer.pubkey}
    /\ StreamerInit

\* The second attempt is turned away at the handshake or at a rate limiter.
ServerNext ==
    \/ \E c \in DOMAIN conn :
          \/ run_server(c)
          \/ setup_connection_rejected(c)
          \/ accept_uni(c)
          \/ read_chunks(c)
          \/ read_chunks_failed(c)
          \/ accept_uni_failed(c)
    \/ packet_batch_sender_recv
    \/ packet_batch_sender_send
    \/ run_server_returns

SpecServer == InitServer /\ [][ServerNext]_vars

\* The sleep in the accept loop's select wakes the loop when no connection
\* comes.
SpecServerFair == SpecServer /\ WF_vars(run_server_returns)

\* ------------------------ SpecExit: the server told to exit by its owner

\* test_quic_server_exit: the owner of the server stores true to exit while
\* the accept loop, the handlers and the batcher run.
test_quic_server_exit ==
    /\ ~exit
    /\ exit' = TRUE
    /\ last_op' = Op("test_quic_server_exit", 0, Event(0, "", << >>, 0, 0), << >>)
    /\ UNCHANGED << max_connections_per_peer, max_staked_connections,
                    max_unstaked_connections, open_connections, table,
                    staked_connection_table, unstaked_connection_table,
                    staked_lock, conn, clients, packet_queue, packet_batch,
                    total_streams, total_connections, accept_loop,
                    batcher_test, stream_load_ema >>

ExitNext ==
    \/ \E c \in DOMAIN conn :
          \/ run_server(c)
          \/ setup_connection_rejected(c)
          \/ accept_uni(c)
          \/ read_chunks(c)
          \/ read_chunks_failed(c)
          \/ accept_uni_failed(c)
    \/ packet_batch_sender_recv
    \/ packet_batch_sender_send
    \/ run_server_returns
    \/ test_quic_server_exit

SpecExit == InitServer /\ [][ExitNext]_vars

\* The sleep of WAIT_FOR_CONNECTION_TIMEOUT in the accept loop's select
\* wakes the loop when no connection comes.
SpecExitFair == SpecExit /\ WF_vars(run_server_returns)

\* ------------------------------------------------ claims on the table

\* The entries of a map, in any order, as a sequence.
RECURSIVE EntriesOf(_)
EntriesOf(m) == IF m = << >> THEN << >> ELSE Head(m).conns \o EntriesOf(Tail(m))

\* The number of entries held under key.
EntriesUnder(m, key) == IF IndexOf(m, key) = 0 THEN 0 ELSE Len(m[IndexOf(m, key)].conns)

SeqAll(s, P(_)) == \A i \in 1..Len(s) : P(s[i])

\* C1: after any sequence of try_add_connection (accepted or refused),
\* prune_oldest, prune_random and remove_connection, total_size equals the
\* sum of the lengths of the per-key entry lists.
C1_TotalSizeIsSumOfLens == table.total_size = SumOfLens(table.table)

\* C1's case: a remove_connection that dropped entries of a key and left others.
C1_Witness ==
    /\ last_op.op = "remove_connection"
    /\ last_op.ret >= 1
    /\ table.total_size >= 2

\* C2 as claimed: a key is in the table only with a non-empty entry list,
\* whatever max_connections_per_peer is (0 included).
C2_KeyPresentIffNonEmpty ==
    \A i \in 1..Len(table.table) : table.table[i].conns # << >>

\* C3: after prune_oldest(N) the table holds at most N entries (by total_size
\* and by count), and a table that held at most N entries is left as it was.
C3_PruneOldestBound ==
    [][\A N \in 0..MaxTableSize :
          (last_op'.op = "prune_oldest" /\ TablePruneOldest(N)) =>
             /\ table'.total_size <= N
             /\ SumOfLens(table'.table) <= N
             /\ (table.total_size <= N => table' = table)]_vars

\* C3's case: a prune_oldest that evicted entries and left some.
C3_Witness ==
    /\ last_op.op = "prune_oldest"
    /\ last_op.ret >= 1
    /\ table.total_size >= 1

\* C4 as claimed: after prune_oldest(N) every evicted entry is no newer than
\* any entry still in the table.
C4_EvictedEntriesAreOldest ==
    [][\A N \in 0..MaxTableSize :
          (last_op'.op = "prune_oldest" /\ TablePruneOldest(N)) =>
             \A g \in 1..Len(EvictedGroups(table.table, table'.table)) :
                SeqAll(EvictedGroups(table.table, table'.table)[g].conns,
                       LAMBDA e : SeqAll(EntriesOf(table'.table),
                                         LAMBDA r : e.last_update <= r.last_update))]_vars

\* C4 as amended: prune_oldest evicts whole keys in the order of each key's
\* oldest entry: the oldest entry of every evicted key is no newer than any
\* entry still in the table.
C4_EvictedKeysAreOldest ==
    [][\A N \in 0..MaxTableSize :
          (last_op'.op = "prune_oldest" /\ TablePruneOldest(N)) =>
             \A g \in 1..Len(EvictedGroups(table.table, table'.table)) :
                LET conns == EvictedGroups(table.table, table'.table)[g].conns
                IN  conns # << >> =>
                      \E i \in 1..Len(conns) :
                         SeqAll(EntriesOf(table'.table),
                                LAMBDA r : conns[i].last_update <= r.last_update)]_vars

\* C4's case: a prune_oldest that evicted a key holding several entries and
\* left another key in the table.
C4_Witness ==
    /\ last_op.op = "prune_oldest"
    /\ last_op.ret >= 2
    /\ Len(table.table) = 1
    /\ table.total_size = 1

\* C5 as claimed: prune_random(sample_size, T) removes no entry whose stake
\* is T or more.
C5_PruneRandomBelowThreshold ==
    [][\A sample_size \in 0..PRUNE_RANDOM_SAMPLE_SIZE, T \in Stakes \cup {0, 3} :
          (last_op'.op = "prune_random" /\ TablePruneRandom(sample_size, T)) =>
             \A g \in 1..Len(EvictedGroups(table.table, table'.table)) :
                SeqAll(EvictedGroups(table.table, table'.table)[g].conns,
                       LAMBDA e : EntryStake(e) < T)]_vars

\* C6: with a fixed max_connections_per_peer no key ever holds more entries
\* than that; try_add_connection on a key holding that many is refused and
\* leaves the entries as they were, whatever total_size is, and on a key
\* holding fewer it adds one entry under that key.
C6_PerKeyCap ==
    /\ [](\A i \in 1..Len(table.table) :
             Len(table.table[i].conns) <= max_connections_per_peer)
    /\ [][\A key \in Keys, port \in Ports, ts \in Timestamps, pt \in TablePeerTypes :
             (last_op'.op = "try_add_connection" /\ TableAdd(key, port, ts, pt)) =>
                IF EntriesUnder(table.table, key) >= max_connections_per_peer
                THEN /\ last_op'.ret = 0
                     /\ EntriesOf(table'.table) = EntriesOf(table.table)
                     /\ table'.total_size = table.total_size
                ELSE /\ last_op'.ret = 1
                     /\ EntriesUnder(table'.table, key) = EntriesUnder(table.table, key) + 1
                     /\ table'.total_size = table.total_size + 1]_vars

\* C6's case: an insertion refused at a full key while another key has room.
C6_Witness ==
    /\ last_op.op = "try_add_connection"
    /\ last_op.ret = 0
    /\ max_connections_per_peer >= 1
    /\ table.total_size >= 2
    /\ \E key \in Keys : EntriesUnder(table.table, key) = max_connections_per_peer
    /\ \E key \in Keys : EntriesUnder(table.table, key) < max_connections_per_peer

\* ------------------------------------------------ claims on the pipeline

\* The attempts that hold a ClientConnectionTracker outside the tables: the
\* setup tasks between the capacity gate and their table insertion.
InFlight == {c \in DOMAIN conn : conn[c].pc \in {"handshake", "fallback"}}

\* C7: open_connections always equals the number of setups in flight plus
\* the entries of the staked and the unstaked table, so every attempt that
\* passed the capacity gate gives its slot back exactly once on every exit
\* path, and the counter is 0 once every attempt is over and the tables are
\* empty.
C7_OpenConnectionsBalance ==
    /\ open_connections = Cardinality(InFlight)
                            + SumOfLens(staked_connection_table.table)
                            + SumOfLens(unstaked_connection_table.table)
    /\ staked_connection_table.total_size = SumOfLens(staked_connection_table.table)
    /\ unstaked_connection_table.total_size = SumOfLens(unstaked_connection_table.table)
    /\ ((\A c \in DOMAIN conn : conn[c].pc = "done") => open_connections = 0)

\* C7 witness: every attempt is over, the last of them a handler whose entry
\* had been evicted from its table before it came to remove it, and the
\* counter is 0.
C7_Witness ==
    /\ \A c \in DOMAIN conn : conn[c].pc = "done"
    /\ last_op.op = "handle_connection"
    /\ last_op.ret.outcome = "connection_remove_failed"
    /\ open_connections = 0

\* The ceiling of the capacity gate as the claim states it.
Ceiling ==
    (max_staked_connections + max_unstaked_connections)
        + (max_staked_connections + max_unstaked_connections) \div 4

\* C8: the accept loop's step for an attempt.  With open_connections at or
\* above (s + u) + (s + u) / 4 the attempt is refused at the capacity gate,
\* before any handshake, and the count is left as it was; below the ceiling
\* the tracker is created and the count goes up by exactly 1 for the setup
\* task (the tracker is given back at once only if Incoming::accept fails).
C8_CapacityGate ==
    [][\A c \in DOMAIN conn :
          (conn[c].pc = "idle" /\ conn'[c].pc # "idle") =>
              IF open_connections >= Ceiling
              THEN /\ open_connections' = open_connections
                   /\ conn'[c].pc = "done"
                   /\ last_op'.ret.outcome = "refused_connections_too_many_open_connections"
                   /\ last_op'.ret.gates = << "capacity" >>
              ELSE \/ /\ conn'[c].pc = "handshake"
                      /\ open_connections' = open_connections + 1
                      /\ open_connections' <= Ceiling
                   \/ /\ conn'[c].pc = "done"
                      /\ last_op'.ret.outcome = "accept_error"
                      /\ open_connections' = open_connections]_vars

\* C8 witness: an attempt has just been refused at the gate while earlier
\* attempts hold every slot under a ceiling that lies above the sum of the
\* two table limits.
C8_Witness ==
    /\ last_op.op = "run_server"
    /\ last_op.ret.outcome = "refused_connections_too_many_open_connections"
    /\ open_connections = Ceiling
    /\ Ceiling > max_staked_connections + max_unstaked_connections

IsPrefix(s, t) == Len(s) <= Len(t) /\ \A i \in 1..Len(s) : s[i] = t[i]
InSeq(x, s) == \E i \in 1..Len(s) : s[i] = x
LimiterDenied == {"connection_rate_limited_per_ipaddr",
                  "connection_rate_limited_across_all"}
HandshakeFailed == {"connection_setup_error", "connection_setup_timeout"}

KeyOf(c) ==
    ConnectionTableKey_new(conn[c].peer.ip, HandlerParams(conn[c].peer).remote_pubkey)

\* C10: a Staked peer that finds the staked table at max_staked_connections
\* with nothing evicted by prune_random is closed as disallowed if
\* max_unstaked_connections is 0 and tried on the unstaked table otherwise.
\* There the table, if at capacity, is first pruned to 90% of
\* max_unstaked_connections, and the peer is refused only when its key is at
\* the per-key cap; else its entry is in the unstaked table.
C10_StakedFallsBackToUnstaked ==
    [][\A c \in DOMAIN conn :
          /\ ( /\ conn[c].pc = "handshake"
               /\ conn'[c].pc # "handshake"
               /\ last_op'.ret.gates = << "capacity", "handshake", "per_ip_rate",
                                          "global_rate" >>
               /\ last_op'.ret.outcome \notin LimiterDenied
               /\ HandlerParams(conn[c].peer).peer_type.staked
               /\ staked_connection_table.total_size >= max_staked_connections
               /\ staked_connection_table'.total_size = staked_connection_table.total_size
               /\ c \notin ConnectionsIn(staked_connection_table'.table) )
             => IF max_unstaked_connections = 0
                THEN /\ conn'[c].pc = "done"
                     /\ last_op'.ret.close = CONNECTION_CLOSE_CODE_DISALLOWED
                     /\ unstaked_connection_table' = unstaked_connection_table
                ELSE conn'[c].pc = "fallback"
          /\ (conn[c].pc = "fallback" /\ conn'[c].pc # "fallback")
             => /\ max_unstaked_connections > 0
                /\ IF unstaked_connection_table.total_size >= max_unstaked_connections
                   THEN unstaked_connection_table'.total_size
                            <= (max_unstaked_connections * 90) \div 100 + 1
                   ELSE last_op'.ret.pruned = 0
                /\ \/ /\ conn'[c].pc = "handler"
                      /\ conn'[c].tbl = "unstaked"
                      /\ c \in ConnectionsIn(unstaked_connection_table'.table)
                      /\ last_op'.ret.outcome = "connection_added_from_staked_peer"
                   \/ /\ conn'[c].pc = "done"
                      /\ last_op'.ret.close = CONNECTION_CLOSE_CODE_TOO_MANY
                      /\ c \notin ConnectionsIn(unstaked_connection_table'.table)
                      /\ EntriesUnder(unstaked_connection_table'.table, KeyOf(c))
                             >= max_connections_per_peer]_vars

\* C10 witness: a Staked peer that found the staked table full has just been
\* added to the unstaked table, which was at capacity and pruned for it.
C10_Witness ==
    /\ last_op.op = "prune_unstaked_connections_and_add_new_connection"
    /\ last_op.ret.outcome = "connection_added_from_staked_peer"
    /\ last_op.ret.pruned >= 1
    /\ max_staked_connections >= 1
    /\ staked_connection_table.total_size >= max_staked_connections

\* A Staked peer has just been refused on the unstaked table with its key at
\* a per-key cap of at least 1.
StakedRefusedAtCap ==
    /\ last_op.op = "prune_unstaked_connections_and_add_new_connection"
    /\ last_op.ret.outcome = "connection_add_failed_staked_node"
    /\ last_op.ret.close = CONNECTION_CLOSE_CODE_TOO_MANY
    /\ max_connections_per_peer >= 1
    /\ staked_connection_table.total_size >= 1

\* A Staked peer that found the staked table full has just been closed as
\* disallowed because max_unstaked_connections is 0.
StakedDisallowed ==
    /\ last_op.op = "setup_connection"
    /\ last_op.ret.outcome = "connection_add_failed_staked_node"
    /\ last_op.ret.close = CONNECTION_CLOSE_CODE_DISALLOWED
    /\ max_unstaked_connections = 0
    /\ staked_connection_table.total_size >= 1

\* ------------------------------------- claims on admissions in a row

\* The entries that are in the unstaked table from before the last admission.
OlderEntries ==
    {e \in LastUpdates(unstaked_connection_table.table) :
        e # ScenarioTimestamp(last_op.ret.attempt)}

\* C11 (as stated): with distinct keys and an unstaked ceiling of 100, the
\* 101st admission attempt prunes the table down to 90 entries before the
\* new entry is inserted, and the entries evicted are exactly the 11 oldest
\* by last-activity timestamp.
C11_EvictsElevenOldest ==
    (last_op.op = "admit_unstaked" /\ last_op.ret.attempt = 101)
        => /\ last_op.ret.before_insert = 90
           /\ Cardinality(last_op.ret.evicted) = 11
           /\ \A e \in last_op.ret.evicted : \A k \in OlderEntries : e < k

\* C11 (amended): with distinct keys and an unstaked ceiling of 100, the
\* 101st admission attempt prunes the table down to 90 entries before the
\* new entry is inserted, and the entries evicted are exactly the 10 oldest
\* by last-activity timestamp; the table then holds 91 entries.
C11_EvictsTenOldest ==
    (last_op.op = "admit_unstaked" /\ last_op.ret.attempt = 101)
        => /\ last_op.ret.before_insert = 90
           /\ Cardinality(last_op.ret.evicted) = 10
           /\ \A e \in last_op.ret.evicted : \A k \in OlderEntries : e < k
           /\ Cardinality(OlderEntries) = 90
           /\ unstaked_connection_table.total_size = 91

C11_Witness ==
    /\ last_op.op = "admit_unstaked"
    /\ last_op.ret.attempt = 101
    /\ last_op.ret.evicted # {}
    /\ unstaked_connection_table.total_size = 91

\* ------------------------------------- claims on the stake arithmetic

StreamsComputed == last_op.op = "compute_max_allowed_uni_streams"
RatioComputed == last_op.op = "compute_receive_window_ratio_for_staked_node"

\* C12: compute_max_allowed_uni_streams returns the fixed unstaked constant
\* for Unstaked, and for Staked(stake) a value inside
\* [QUIC_MIN_STAKED_CONCURRENT_STREAMS, QUIC_MAX_STAKED_CONCURRENT_STREAMS]
\* for every stake and total_stake, exactly the staked minimum when
\* total_stake = 0 or stake > total_stake.
C12_StreamsWithinBounds ==
    StreamsComputed =>
        LET r == last_op.ret
        IN  IF ~r.peer_type.staked
            THEN r.streams = QUIC_MAX_UNSTAKED_CONCURRENT_STREAMS
            ELSE /\ r.streams >= QUIC_MIN_STAKED_CONCURRENT_STREAMS
                 /\ r.streams <= QUIC_MAX_STAKED_CONCURRENT_STREAMS
                 /\ (r.total_stake = 0 \/ r.peer_type.stake > r.total_stake)
                        => r.streams = QUIC_MIN_STAKED_CONCURRENT_STREAMS

\* A share of the stake large enough to meet the clamp at the maximum.
C12_Witness ==
    /\ StreamsComputed
    /\ last_op.ret.peer_type.staked
    /\ last_op.ret.peer_type.stake <= last_op.ret.total_stake
    /\ compute_max_allowed_uni_streams_unclamped(last_op.ret.peer_type,
                                                 last_op.ret.total_stake)
           > QUIC_MAX_STAKED_CONCURRENT_STREAMS
    /\ last_op.ret.streams = QUIC_MAX_STAKED_CONCURRENT_STREAMS

\* C13 (as stated): for a fixed total_stake,
\* compute_max_allowed_uni_streams(Staked(stake), total_stake) is
\* non-decreasing in stake over all stake inputs, stake > total_stake
\* included.
C13_StreamsMonotoneEverywhere ==
    (StreamsComputed /\ last_op.ret.from_stake # None)
        => last_op.ret.streams >= last_op.ret.from_streams

\* C13 (amended): for a fixed total_stake the value is non-decreasing in
\* stake over 0 <= stake <= total_stake; a stake above total_stake gets the
\* staked minimum, which is below the value of every stake that earns more
\* than the minimum.
C13_StreamsMonotoneUpToTotal ==
    (StreamsComputed /\ last_op.ret.from_stake # None)
        => IF last_op.ret.peer_type.stake <= last_op.ret.total_stake
           THEN last_op.ret.streams >= last_op.ret.from_streams
           ELSE last_op.ret.streams = QUIC_MIN_STAKED_CONCURRENT_STREAMS

\* A larger stake within the total earning strictly more streams, both
\* between the bounds.
C13_Witness ==
    /\ StreamsComputed
    /\ last_op.ret.from_stake # None
    /\ last_op.ret.peer_type.stake <= last_op.ret.total_stake
    /\ last_op.ret.from_streams > QUIC_MIN_STAKED_CONCURRENT_STREAMS
    /\ last_op.ret.streams > last_op.ret.from_streams
    /\ last_op.ret.streams < QUIC_MAX_STAKED_CONCURRENT_STREAMS

\* C14: compute_receive_window_ratio_for_staked_node returns a ratio inside
\* [QUIC_MIN_STAKED_RECEIVE_WINDOW_RATIO, QUIC_MAX_STAKED_RECEIVE_WINDOW_RATIO]
\* for every stake, max_stake and min_stake, stake = 0 and a stake below a
\* non-zero min_stake included.
C14_RatioWithinBounds ==
    RatioComputed =>
        /\ last_op.ret.ratio >= QUIC_MIN_STAKED_RECEIVE_WINDOW_RATIO
        /\ last_op.ret.ratio <= QUIC_MAX_STAKED_RECEIVE_WINDOW_RATIO

\* The ratio is within the bounds for a stake inside [min_stake, max_stake].
C14_RatioWithinBoundsInRange ==
    (RatioComputed /\ last_op.ret.stake >= last_op.ret.min_stake)
        => /\ last_op.ret.ratio >= QUIC_MIN_STAKED_RECEIVE_WINDOW_RATIO
           /\ last_op.ret.ratio <= QUIC_MAX_STAKED_RECEIVE_WINDOW_RATIO

EndOfStreamRead(c, total) ==
    /\ conn[c].pc = "stream"
    /\ conn[c].offset = total
    /\ last_op'.op = "read_chunks"
    /\ last_op'.ret.c = c
    /\ last_op'.ret.chunks = << >>

\* C16: a stream delivered as non-empty chunks of at most PACKET_DATA_SIZE
\* bytes in all and then the end-of-stream read completes exactly one
\* packet: the handler finishes the stream once and offers its accumulator
\* once to the hand-off queue, the packet made of that accumulator has the
\* bytes of the chunks in arrival order and meta.size their total length,
\* and so has every packet the batcher makes.
C16_OnePacketInArrivalOrder ==
    [][(\A c \in DOMAIN conn : \A total \in 1..PACKET_DATA_SIZE :
           EndOfStreamRead(c, total) =>
               LET packet == PacketOfAccumulator(conn[c].accum)
               IN  /\ last_op'.ret.state = "Finished"
                   /\ packet.buffer = StreamChunk(0, total)
                   /\ packet.meta.size = total
                   /\ \/ packet_queue' = Append(packet_queue, conn[c].accum)
                      \/ packet_queue' = packet_queue
                   /\ conn'[c].pc = "handler"
                   /\ conn'[c].accum = NoAccum)
       /\ (last_op'.op = "packet_batch_sender_recv" =>
               LET made == last_op'.ret.packet
               IN  /\ packet_batch' = Append(packet_batch, made)
                   /\ made.meta.size \in 1..PACKET_DATA_SIZE
                   /\ made.buffer = StreamChunk(0, made.meta.size)
                   /\ made.buffer = Concat(last_op'.ret.chunks))]_vars

\* C16 witness: the batcher has made the packet of a stream that came in
\* four chunks, and the packet is in its batch.
C16_Witness ==
    /\ last_op.op = "packet_batch_sender_recv"
    /\ Len(last_op.ret.chunks) = ChunksPerRead
    /\ packet_batch # << >>
    /\ packet_batch[Len(packet_batch)].buffer = StreamChunk(0, ChunksPerRead)
    /\ packet_batch[Len(packet_batch)].meta.size = ChunksPerRead

\* The step is a read of the handler of c that brings the bytes received of
\* its stream to total.
ReadUpTo(c, total) ==
    /\ conn[c].pc = "stream"
    /\ last_op'.op = "read_chunks"
    /\ last_op'.ret.c = c
    /\ last_op'.ret.chunks # << >>
    /\ conn[c].offset + Len(Concat(last_op'.ret.chunks)) = total

\* C17: a read that brings a stream beyond PACKET_DATA_SIZE bytes makes the
\* handler close the connection with the invalid-stream code, offer nothing
\* to the hand-off queue, give the stream count back and return after it
\* has removed its entry, the only one, from its table; a read that brings
\* the stream to exactly PACKET_DATA_SIZE bytes leaves the stream going.
C17_OversizedStreamClosesConnection ==
    [][\A c \in DOMAIN conn :
          /\ (\E total \in PACKET_DATA_SIZE + 1..2 * PACKET_DATA_SIZE + 1 :
                 ReadUpTo(c, total)) =>
                /\ last_op'.ret.state = "Err"
                /\ "invalid_stream_size" \in last_op'.ret.stats
                /\ last_op'.ret.close = CONNECTION_CLOSE_CODE_INVALID_STREAM
                /\ CONNECTION_CLOSE_CODE_INVALID_STREAM = 5
                /\ packet_queue' = packet_queue
                /\ total_streams' = total_streams - 1
                /\ conn'[c] = DoneConn
                /\ last_op'.ret.removed = 1
                /\ staked_connection_table' = NewTable
                /\ unstaked_connection_table' = NewTable
                /\ open_connections' = open_connections - 1
          /\ ReadUpTo(c, PACKET_DATA_SIZE) =>
                /\ last_op'.ret.state = "Receiving"
                /\ last_op'.ret.close = 0
                /\ conn'[c].pc = "stream"
                /\ conn'[c].accum.meta.size = PACKET_DATA_SIZE
                /\ UNCHANGED << staked_connection_table, unstaked_connection_table >>]_vars

\* C17 witness: the handler has returned on a stream whose second read
\* brought it beyond PACKET_DATA_SIZE, and its entry is out of the table.
C17_Witness ==
    /\ last_op.op = "read_chunks"
    /\ last_op.ret.state = "Err"
    /\ last_op.ret.chunks # << >>
    /\ last_op.ret.chunks[1][1] > 1
    /\ last_op.ret.close = CONNECTION_CLOSE_CODE_INVALID_STREAM
    /\ last_op.ret.removed = 1
    /\ conn[1] = DoneConn
    /\ staked_connection_table.total_size + unstaked_connection_table.total_size = 0

\* C18: a stream that ends with no chunk received is dropped and nothing
\* else happens: no packet is offered to the hand-off queue, no close is
\* sent, the handler goes back to wait for the next stream and its entry
\* stays in its table.
C18_EmptyStreamLeavesConnectionOpen ==
    [][\A c \in DOMAIN conn :
          EndOfStreamRead(c, 0) =>
              /\ packet_queue' = packet_queue
              /\ last_op'.ret.close = 0
              /\ conn'[c].pc = "handler"
              /\ conn'[c].close_code = 0
              /\ last_op'.ret.removed = 0
              /\ UNCHANGED << staked_connection_table, unstaked_connection_table,
                              open_connections >>]_vars

\* C18, what the code does: the empty stream is an invalid stream, no
\* packet is offered, and the handler closes the connection with the
\* invalid-stream code and returns after it has removed its entry.
C18_EmptyStreamClosesConnection ==
    [][\A c \in DOMAIN conn :
          EndOfStreamRead(c, 0) =>
              /\ last_op'.ret.state = "Err"
              /\ last_op'.ret.stats = {"total_packet_batches_none"}
              /\ packet_queue' = packet_queue
              /\ last_op'.ret.close = CONNECTION_CLOSE_CODE_INVALID_STREAM
              /\ conn'[c] = DoneConn
              /\ last_op'.ret.removed = 1
              /\ total_streams' = total_streams - 1]_vars

\* C18 case: the handler has taken the end-of-stream read of a stream of
\* which it had received nothing.
C18_Witness ==
    /\ last_op.op = "read_chunks"
    /\ last_op.ret.chunks = << >>
    /\ last_op.ret.stats = {"total_packet_batches_none"}

\* C19: when the wait for chunks of a stream ends by the timeout or by a
\* read error, the handler offers nothing to the hand-off queue, drops what
\* it had accumulated, gives the stream count back and waits for the next
\* stream; it sends no close and its entry stays in its table.
C19_DeadStreamLeavesConnectionOpen ==
    [][\A c \in DOMAIN conn :
          (/\ conn[c].pc = "stream"
           /\ last_op'.op = "read_chunks_failed"
           /\ last_op'.ret.c = c) =>
              /\ last_op'.ret.stats \in {{"total_stream_read_timeouts"},
                                         {"total_stream_read_errors"}}
              /\ packet_queue' = packet_queue
              /\ conn'[c].accum = NoAccum
              /\ total_streams' = total_streams - 1
              /\ total_streams' = 0
              /\ conn'[c].pc = "handler"
              /\ conn'[c].close_code = 0
              /\ conn'[c].streams = conn[c].streams
              /\ last_op'.ret.close = 0
              /\ last_op'.ret.removed = 0
              /\ UNCHANGED << staked_connection_table, unstaked_connection_table,
                              open_connections >>]_vars

\* C19 witness: the handler has given up its first stream on the timeout;
\* its entry is in its table, the queue is empty and the handler can accept
\* the next stream.
C19_Witness ==
    /\ last_op.op = "read_chunks_failed"
    /\ last_op.ret.stats = {"total_stream_read_timeouts"}
    /\ conn[1].pc = "handler"
    /\ conn[1].streams = 1
    /\ packet_queue = << >>
    /\ total_streams = 0
    /\ open_connections = 1
    /\ staked_connection_table.total_size + unstaked_connection_table.total_size = 1
    /\ ENABLED accept_uni(1)

\* C20: the hand-off queue never holds more than coalesce_channel_size
\* accumulators.  The handler that completes a packet finishes the stream
\* in the same step whatever the state of the queue: with room in the
\* queue the accumulator goes to its end, unaltered and once, and is
\* counted as sent; with the queue full (or its receiver gone) the queue is
\* left alone and the packet is counted as a send error, and as one of a
\* full queue when full.  The batcher takes each accumulator off the head
\* of the queue once and makes its packet.
C20_HandOffNeverBlocks ==
    /\ [](Len(packet_queue) <= coalesce_channel_size)
    /\ [][(\A c \in DOMAIN conn : \A total \in 1..PACKET_DATA_SIZE :
              EndOfStreamRead(c, total) =>
                  /\ last_op'.ret.state = "Finished"
                  /\ conn'[c].pc = "handler"
                  /\ last_op'.ret.close = 0
                  /\ total_streams' = total_streams - 1
                  /\ IF exit
                     THEN /\ packet_queue' = packet_queue
                          /\ last_op'.ret.stats =
                               {"total_handle_chunk_to_packet_batcher_send_err",
                                "total_handle_chunk_to_packet_batcher_send_disconnected_err"}
                     ELSE IF Len(packet_queue) >= coalesce_channel_size
                     THEN /\ packet_queue' = packet_queue
                          /\ last_op'.ret.stats =
                               {"total_handle_chunk_to_packet_batcher_send_err",
                                "total_handle_chunk_to_packet_batcher_send_full_err"}
                     ELSE /\ packet_queue' = Append(packet_queue, conn[c].accum)
                          /\ "total_packets_sent_for_batching" \in last_op'.ret.stats
                          /\ "total_handle_chunk_to_packet_batcher_send_err"
                                 \notin last_op'.ret.stats)
          /\ (last_op'.op = "packet_batch_sender_recv" =>
                  /\ packet_queue # << >>
                  /\ packet_queue' = Tail(packet_queue)
                  /\ last_op'.ret.packet = PacketOfAccumulator(Head(packet_queue))
                  /\ packet_batch' = Append(packet_batch, last_op'.ret.packet))]_vars

\* C20 witness: a handler has completed a packet while the queue was full:
\* the packet is counted as dropped, the queue holds what it held and the
\* handler waits for the next stream.
C20_Witness ==
    /\ last_op.op = "read_chunks"
    /\ last_op.ret.state = "Finished"
    /\ "total_handle_chunk_to_packet_batcher_send_full_err" \in last_op.ret.stats
    /\ Len(packet_queue) = coalesce_channel_size
    /\ conn[1].pc = "handler"
    /\ conn[1].close_code = 0
    /\ ~exit

\* ------------------------------------------------ claims on the batcher

\* The step is the batcher's send of its batch, with the outcome err of
\* try_send on the consumer's channel.
BatchSend(err) ==
    /\ last_op'.op = "packet_batch_sender_send"
    /\ last_op'.ret.state = err

\* C21: when the batcher's send finds the consumer's channel full, the
\* packets of the batch stay in the batch for the next attempt.
C21_FullConsumerKeepsBatch ==
    [][BatchSend("Full") => packet_batch' = packet_batch]_vars

\* C21, what the code does: try_send has taken the batch by value, the
\* failed send is counted and the batcher starts over with an empty batch;
\* the hand-off queue is as it was, so the packets of the batch are nowhere.
C21_FullConsumerDropsBatch ==
    [][BatchSend("Full") =>
          /\ packet_batch # << >>
          /\ packet_batch' = << >>
          /\ packet_queue' = packet_queue
          /\ last_op'.ret.stats = {"total_packet_batch_send_err"}
          /\ ~exit']_vars

\* C21 case: the batcher has sent a batch to a full consumer channel.
C21_Witness ==
    /\ last_op.op = "packet_batch_sender_send"
    /\ last_op.ret.state = "Full"
    /\ ~exit

\* C22: the batcher's send to a disconnected consumer sets exit and ends
\* the batcher; nothing else sets exit and nothing clears it; the accept
\* loop returns at the head of its next turn, having taken at most the
\* connection it was woken for, and accepts none after.
C22_DisconnectedConsumerStopsServer ==
    /\ [][(BatchSend("Disconnected") => exit')
          /\ (exit' # exit => (BatchSend("Disconnected") /\ exit'))
          /\ (exit /\ last_op'.op = "run_server" => accept_loop' = "returned")
          /\ (accept_loop' # accept_loop => (exit /\ accept_loop' = "returned"))]_vars
    /\ [](exit => /\ ~ENABLED packet_batch_sender_recv
                  /\ ~ENABLED packet_batch_sender_send)
    /\ [](accept_loop = "returned" => \A c \in DOMAIN conn : ~ENABLED run_server(c))
    /\ (exit ~> accept_loop = "returned")

\* C22 witness: the batcher has set exit and returned, and the accept loop
\* has returned with an attempt it never received.
C22_Witness ==
    /\ exit
    /\ accept_loop = "returned"
    /\ \E c \in DOMAIN conn : conn[c].pc = "idle"

\* The packets the batcher has emitted and the test has not yet taken.
EmittedPending == Concat(batcher_test.pkt_batch_receiver)

\* The number of packets in the batches emitted so far.
EmittedPackets == batcher_test.i + Len(EmittedPending)

\* The bytes of everything between the test's sender and its counter, the
\* oldest first: the emitted batches, the batch in the making, the queue.
BatcherInFlight ==
    [k \in 1..Len(EmittedPending) |-> EmittedPending[k].buffer]
        \o [k \in 1..Len(packet_batch) |-> packet_batch[k].buffer]
        \o [k \in 1..Len(packet_queue) |-> Concat(packet_queue[k].chunks)]

\* C23: with a consumer that is never full or disconnected and exit not
\* set, what is between the hand-off queue's sender and the consumer's
\* count is always the packets i+1 .. sent, each once and in the order they
\* were queued, with at most PACKETS_PER_BATCH to a batch; every packet
\* queued is eventually in an emitted batch, and in the end the lengths of
\* the batches received add up to the number of packets queued.
C23_EveryQueuedPacketEmittedOnce ==
    /\ [](batcher_test.running =>
             /\ BatcherInFlight = [k \in 1..(batcher_test.sent - batcher_test.i) |->
                               << batcher_test.i + k >>]
             /\ Len(packet_batch) <= PACKETS_PER_BATCH
             /\ \A b \in 1..Len(batcher_test.pkt_batch_receiver) :
                    Len(batcher_test.pkt_batch_receiver[b]) \in 1..PACKETS_PER_BATCH)
    /\ \A k \in 1..num_packets :
           (batcher_test.sent >= k) ~> (EmittedPackets >= k)
    /\ <>(batcher_test.sent = num_packets /\ batcher_test.i = num_packets)

\* C23 witness: the test has counted the last batch, every packet sent has
\* been received and nothing is left on the way.
C23_Witness ==
    /\ last_op.op = "test_try_recv"
    /\ batcher_test.sent = num_packets
    /\ batcher_test.i = num_packets
    /\ BatcherInFlight = << >>
    /\ ~exit

\* ------------------------------------------------- claims on throttling

\* C24: throttling never drops a stream.  A handler is put to sleep only
\* with the stream count of the interval at or over the allowance, and the
\* stream it holds is not counted yet; a sleeping handler leaves its sleep
\* only to read that stream, which is then counted in total_new_streams
\* and gets its accumulator, and it does leave it; every stream accepted is
\* counted so, and one that is completed goes to the hand-off queue when
\* the queue has room.
C24_ThrottlingNeverDropsStream ==
    /\ [][(\A c \in DOMAIN conn :
              /\ (conn[c].pc # "throttled" /\ conn'[c].pc = "throttled") =>
                    /\ conn[c].pc = "handler"
                    /\ conn'[c].stream_count >= stream_load_ema
                    /\ conn'[c].streams = conn[c].streams
                    /\ total_streams' = total_streams
              /\ (conn[c].pc = "throttled" /\ conn'[c].pc # "throttled") =>
                    /\ conn'[c].pc = "stream"
                    /\ conn'[c].close_code = conn[c].close_code
              /\ (conn[c].pc # "stream" /\ conn'[c].pc = "stream") =>
                    /\ conn'[c].streams = conn[c].streams + 1
                    /\ conn'[c].stream_count >= 1
                    /\ conn'[c].accum.chunks = << >>
                    /\ total_streams' = total_streams + 1
                    /\ "total_new_streams" \in last_op'.ret.stats)
          /\ ((last_op'.op = "read_chunks" /\ last_op'.ret.state = "Finished"
                  /\ Len(packet_queue) < coalesce_channel_size /\ ~exit) =>
                 /\ Len(packet_queue') = Len(packet_queue) + 1
                 /\ "total_packets_sent_for_batching" \in last_op'.ret.stats)]_vars
    /\ \A c \in {1} : (conn[c].pc = "throttled") ~> (conn[c].pc = "stream")

\* C24 witness: the handler has slept through the rest of the interval
\* with its second stream in hand, the allowance being one stream, and now
\* waits for the chunks of that stream.
C24_Witness ==
    /\ last_op.op = "throttle_sleep_over"
    /\ stream_load_ema = 1
    /\ conn[1].pc = "stream"
    /\ conn[1].streams = 2
    /\ conn[1].stream_count = 2
    /\ total_streams = 1

\* C25: with the stream count of the current interval at or over the
\* allowance and time left of the interval, the handler that has accepted a
\* stream sleeps for the interval's length less the time gone by since the
\* interval started, and reads the stream no sooner than a whole interval
\* after that start; with the count below the allowance (or none of the
\* interval left) it reads the stream in the same step.
C25_ThrottlingDelay ==
    [][\A c \in DOMAIN conn :
          LET fresh == conn[c].elapsed > STREAM_THROTTLING_INTERVAL
              count == IF fresh THEN 0 ELSE conn[c].stream_count
              gone == IF fresh THEN 0 ELSE conn[c].elapsed
          IN  /\ (conn[c].pc = "handler" /\ conn'[c].pc \in {"throttled", "stream"}) =>
                    IF count >= stream_load_ema /\ gone < STREAM_THROTTLING_INTERVAL
                    THEN /\ conn'[c].pc = "throttled"
                         /\ conn'[c].sleep_left = STREAM_THROTTLING_INTERVAL - gone
                         /\ conn'[c].elapsed = gone
                    ELSE /\ conn'[c].pc = "stream"
                         /\ conn'[c].elapsed = gone
              /\ (conn[c].pc = "throttled" /\ conn'[c].pc = "stream") =>
                    /\ conn[c].elapsed >= STREAM_THROTTLING_INTERVAL
                    /\ conn'[c].elapsed = conn[c].elapsed
              /\ (conn[c].pc = "throttled" /\ conn'[c].pc = "throttled"
                     /\ conn'[c] # conn[c]) =>
                    /\ conn'[c].sleep_left = saturating_sub(conn[c].sleep_left, 1)
                    /\ conn'[c].elapsed = conn[c].elapsed + 1]_vars

\* C25 witness: a stream accepted one tick into an interval whose allowance
\* is used up: the handler sleeps for the interval less that tick.
C25_Witness ==
    /\ last_op.op = "accept_uni"
    /\ conn[1].pc = "throttled"
    /\ conn[1].elapsed = 1
    /\ conn[1].sleep_left = STREAM_THROTTLING_INTERVAL - 1
    /\ conn[1].stream_count = stream_load_ema

\* ------------------------------------------- claims on the handler's exit

\* The entries a table holds under a key, in their order.
GroupConns(t, key) ==
    IF IndexOf(t.table, key) = 0 THEN << >>
    ELSE t.table[IndexOf(t.table, key)].conns

TableKeys(t) == {t.table[i].key : i \in 1..Len(t.table)}

\* C26: the removal a handler makes when it returns takes its own
\* connection's entry and no other.  Under every key the table keeps, in
\* their order, the entries of the other connections, also those of the
\* handler's own key and port; the count returned is that of the entries
\* with the handler's stable_id, which is 1 while its entry is in the table
\* and 0 once the entry was evicted; the other table is left alone.
C26_HandlerRemovesOnlyItsOwnEntry ==
    [][\A c \in DOMAIN conn :
          (conn[c].tbl # "none" /\ conn'[c].pc = "done") =>
              LET staked == conn[c].tbl = "staked"
                  t == IF staked THEN staked_connection_table
                       ELSE unstaked_connection_table
                  after == IF staked THEN staked_connection_table'
                           ELSE unstaked_connection_table'
                  own == {<< key, i >> \in TableKeys(t) \X (1..MaxConns) :
                             /\ i <= Len(GroupConns(t, key))
                             /\ GroupConns(t, key)[i].connection = c}
              IN  /\ \A key \in TableKeys(t) \cup TableKeys(after) :
                        GroupConns(after, key) =
                            SelectSeq(GroupConns(t, key), LAMBDA e : e.connection # c)
                  /\ \A i \in 1..Len(after.table) : after.table[i].conns # << >>
                  /\ after.total_size = t.total_size - Cardinality(own)
                  /\ Cardinality(own) <= 1
                  /\ Cardinality(own) = IF conn[c].cancelled THEN 0 ELSE 1
                  /\ last_op'.ret.c = c
                  /\ last_op'.ret.removed = Cardinality(own)
                  /\ open_connections' = open_connections - Cardinality(own)
                  /\ IF staked
                     THEN unstaked_connection_table' = unstaked_connection_table
                     ELSE staked_connection_table' = staked_connection_table]_vars

\* C26 witness: every connection has the one peer's key and port.  The
\* handler of the first, whose entry the second evicted, has returned and
\* removed nothing: the table still holds the entry of the second.
C26_Witness ==
    /\ clients = {NoPubkey}
    /\ last_op.op \in {"accept_uni_failed", "read_chunks"}
    /\ last_op.ret.c = 1
    /\ last_op.ret.removed = 0
    /\ conn[1].pc = "done"
    /\ conn[2].pc \in {"handler", "stream"}
    /\ unstaked_connection_table.total_size = 1
    /\ \E key \in TableKeys(unstaked_connection_table) :
          /\ Len(GroupConns(unstaked_connection_table, key)) = 1
          /\ GroupConns(unstaked_connection_table, key)[1].port = 0
          /\ GroupConns(unstaked_connection_table, key)[1].connection = 2

\* C26, the other case: of two connections that shared key and port one
\* was closed; its handler has removed exactly its entry and the key holds
\* the entry of the other.
C26_WitnessSharedKey ==
    /\ clients = {NoPubkey}
    /\ max_unstaked_connections = 2
    /\ last_op.op \in {"accept_uni_failed", "read_chunks"}
    /\ last_op.ret.c = 2
    /\ last_op.ret.removed = 1
    /\ conn[2].pc = "done"
    /\ conn[1].pc \in {"handler", "stream"}
    /\ ~conn[1].cancelled
    /\ unstaked_connection_table.total_size = 1
    /\ \E key \in TableKeys(unstaked_connection_table) :
          GroupConns(unstaked_connection_table, key)[1].connection = 1

\* ------------------------------------------------ claims on cancellation

HandlerRuns(c) == conn[c].pc \in {"handler", "stream", "throttled"}

\* The handler of c has just found its token cancelled while it waited
\* for chunks.
ObservedCancel(c) ==
    /\ last_op.op = "read_chunks_cancelled"
    /\ last_op.ret.c = c

\* The handler of c has just put a packet on the hand-off queue.
Forwarded(c) ==
    /\ last_op.op = "read_chunks"
    /\ last_op.ret.c = c
    /\ last_op.ret.state = "Finished"
    /\ "total_packets_sent_for_batching" \in last_op.ret.stats

\* C27 as stated: a handler whose entry's token is cancelled eventually
\* returns, and from the moment it has observed the cancellation it
\* forwards no packet any more.
C27_NothingForwardedAfterCancel ==
    /\ \A c \in {1} : (conn[c].cancelled /\ HandlerRuns(c)) ~> (conn[c].pc = "done")
    /\ \A c \in {1} : [](ObservedCancel(c) => [](~Forwarded(c)))

\* C27 as the code has it: the eviction of an entry cancels its token and
\* closes its connection as dropped; a handler whose token is cancelled
\* eventually returns; the step in which it finds the token cancelled
\* while waiting for chunks forwards nothing and gives the stream up with
\* what was read of it, and leaves the handler at the head of its outer
\* loop, where it returns or accepts a stream the peer had opened before.
C27_CancelledHandlerReturns ==
    /\ \A c \in {1} : (conn[c].cancelled /\ HandlerRuns(c)) ~> (conn[c].pc = "done")
    /\ [][\A c \in {1} :
            /\ (HandlerRuns(c) /\ ~conn[c].cancelled /\ conn'[c].cancelled) =>
                  /\ last_op'.op = "setup_connection"
                  /\ last_op'.ret.pruned >= 1
                  /\ conn'[c].close_code # 0
                  /\ conn'[c].pc = conn[c].pc
                  /\ packet_queue' = packet_queue
            /\ (last_op'.op = "read_chunks_cancelled" /\ last_op'.ret.c = c) =>
                  /\ conn[c].cancelled
                  /\ conn[c].pc = "stream"
                  /\ conn'[c].pc = "handler"
                  /\ conn'[c].accum = NoAccum
                  /\ packet_queue' = packet_queue
                  /\ total_streams' = total_streams - 1]_vars

\* C27 witness: the handler of the evicted connection, which had found its
\* token cancelled during an earlier stream or not, has read a later stream
\* to its end and put its packet on the hand-off queue.
C27_Witness ==
    /\ conn[1].cancelled
    /\ conn[1].close_code = CONNECTION_CLOSE_CODE_DROPPED_ENTRY
    /\ conn[1].streams = 2
    /\ Forwarded(1)

\* --------------------------------------------- claims on the table locks

\* C28 as stated: no task is suspended while it holds the lock of a
\* connection table.  (A task is at an await in every state it is not
\* done in; the unstaked table's lock is taken and released within a
\* step on every path.)
C28_NoLockHeldWhileSuspended == staked_lock = 0

\* C28 as the code has it: the one task that is suspended with a table's
\* lock is the setup task of a staked peer that found the staked table
\* full: it awaits the unstaked table's lock with the staked table's guard
\* alive, and lets go of both in its next step.  Staked insertion,
\* unstaked insertion and the handler's removal begin and end with the
\* lock free.
C28_LockHeldOnlyAcrossFallback ==
    /\ [](staked_lock # 0 => conn[staked_lock].pc = "fallback")
    /\ [](\A c \in DOMAIN conn : conn[c].pc = "fallback" => staked_lock = c)
    /\ [][(staked_lock' # staked_lock =>
              \/ /\ staked_lock = 0
                 /\ last_op'.op = "setup_connection"
                 /\ last_op'.ret.c = staked_lock'
              \/ /\ staked_lock' = 0
                 /\ last_op'.op = "prune_unstaked_connections_and_add_new_connection"
                 /\ last_op'.ret.c = staked_lock)
          /\ (\A c \in DOMAIN conn :
                 (conn[c].tbl = "staked" /\ conn'[c].pc = "done") => staked_lock = 0)]_vars

\* C28 witness: a setup task awaits the unstaked table's lock holding the
\* staked table's, while the handler of a connection in the staked table
\* is running, whose removal needs that lock.
C28_Witness ==
    /\ staked_lock # 0
    /\ conn[staked_lock].pc = "fallback"
    /\ \E c \in DOMAIN conn : conn[c].pc = "handler" /\ conn[c].tbl = "staked"

\* ------------------------------------------------ claims on close codes

\* The connection c has an entry in the table t.
HasEntry(t, c) ==
    \E i \in 1..Len(t.table) : \E j \in 1..Len(t.table[i].conns) :
        t.table[i].conns[j].connection = c

\* C29: the five codes are 1 to 5, and every step closes with the code of
\* its condition and no other.  A running connection whose entry another
\* task's admission evicts is closed as dropped (1) and its token
\* cancelled, and nothing else closes a connection from outside its task.
\* A setup task closes as disallowed (2) when a rate limiter denies the
\* connection or the unstaked table is disabled, with 3 when the stream
\* bound is no VarInt, as too many (4) when the peer's key is at its cap
\* after pruning, and not at all otherwise.  A handler closes as invalid
\* stream (5) on the read that takes a stream beyond PACKET_DATA_SIZE (or
\* ends a stream without a byte) and on no other step.
C29_CloseCodes ==
    /\ [](<< CONNECTION_CLOSE_CODE_DROPPED_ENTRY, CONNECTION_CLOSE_CODE_DISALLOWED,
             CONNECTION_CLOSE_CODE_EXCEED_MAX_STREAM_COUNT,
             CONNECTION_CLOSE_CODE_TOO_MANY, CONNECTION_CLOSE_CODE_INVALID_STREAM >>
              = << 1, 2, 3, 4, 5 >>)
    /\ [][\A c \in DOMAIN conn :
            LET key == ConnectionTableKey_new(conn[c].peer.ip,
                                              HandlerParams(conn[c].peer).remote_pubkey)
                pruned == prune_unstaked_connection_table(unstaked_connection_table,
                                                          max_unstaked_connections)
                step == last_op'.ret.c = c
                evicted == /\ HasEntry(unstaked_connection_table, c)
                           /\ ~HasEntry(unstaked_connection_table', c)
                           /\ ~step
                oversized == conn[c].offset + Len(Concat(last_op'.ret.chunks))
                                 > PACKET_DATA_SIZE
                empty == last_op'.ret.chunks = << >> /\ conn[c].offset = 0
            IN  /\ evicted =>
                      /\ conn'[c].close_code = 1
                      /\ conn'[c].cancelled
                      /\ last_op'.op = "setup_connection"
                      /\ last_op'.ret.pruned >= 1
                /\ (conn'[c].close_code # conn[c].close_code /\ ~step) => evicted
                /\ (step /\ conn[c].pc = "handshake") =>
                      last_op'.ret.close =
                          IF last_op'.ret.outcome \in LimiterDenied THEN 2
                          ELSE IF last_op'.ret.outcome \in HandshakeFailed THEN 0
                          ELSE IF max_unstaked_connections = 0 THEN 2
                          ELSE IF ~VarInt_from_u64_ok(PeerMaxUniStreams[conn[c].peer]) THEN 3
                          ELSE IF Len(GroupConns(pruned, key)) >= max_connections_per_peer
                          THEN 4
                          ELSE 0
                /\ (step /\ last_op'.op = "read_chunks") =>
                      /\ last_op'.ret.close = IF oversized \/ empty THEN 5 ELSE 0
                      /\ last_op'.ret.close = 5 => conn'[c].pc = "done"
                /\ (step /\ conn[c].pc # "handshake" /\ last_op'.op # "read_chunks") =>
                      last_op'.ret.close = 0]_vars

\* C29 witness: the peer's second connection has been refused at the
\* peer's cap, with room left in the unstaked table, and closed as too many.
C29_Witness ==
    /\ last_op.op = "setup_connection"
    /\ last_op.ret.close = CONNECTION_CLOSE_CODE_TOO_MANY
    /\ max_connections_per_peer = 1
    /\ max_unstaked_connections = 2
    /\ unstaked_connection_table.total_size = 1
    /\ \E c \in DOMAIN conn : HandlerRuns(c) /\ conn[c].close_code = 0

\* C29, further cases reached: a connection closed as dropped by an
\* eviction, one closed as disallowed with the unstaked table disabled, and
\* one closed for an invalid stream.
C29_WitnessDropped ==
    /\ last_op.op = "setup_connection"
    /\ last_op.ret.pruned = 1
    /\ \E c \in DOMAIN conn :
          HandlerRuns(c) /\ conn[c].cancelled /\ conn[c].close_code = 1

C29_WitnessDisallowed ==
    /\ last_op.op = "setup_connection"
    /\ last_op.ret.close = 2
    /\ max_unstaked_connections = 0

C29_WitnessInvalidStream ==
    /\ last_op.op = "read_chunks"
    /\ last_op.ret.close = 5
\* ------------------------------------------- claims on the classification

Classified == last_op.op = "NewConnectionHandlerParams"

\* stake * max_streams_per_ms * STREAM_THROTTLING_INTERVAL_MS >= total_stake,
\* in whole numbers.
AtStakeRatio(stake, total_stake) ==
    LimbsGeq(MulCarry(stake, max_streams_per_ms * STREAM_THROTTLING_INTERVAL_MS, 0),
             total_stake)

\* x * 2^50 and x * (2^50 + 1)
Times2_50(x) == ZeroLimbs(5) \o x
Times2_50Plus1(x) == AddCarry(ZeroLimbs(5) \o x, x, 1, 0)

\* C30 as stated: a peer found in the stake snapshot is handed on as
\* Staked(stake) exactly when stake * max_streams_per_ms *
\* STREAM_THROTTLING_INTERVAL_MS >= total_stake, and as Unstaked below that.
C30_StakedExactlyAtRatio ==
    Classified /\ last_op.ret.found
        => (last_op.ret.params.peer_type.staked
                <=> AtStakeRatio(last_op.ret.stake, last_op.ret.total_stake))

\* C30: a peer without an identity or without a stake entry is handed on as
\* Unstaked.  A peer found in the snapshot is handed on as Staked(stake)
\* exactly when stake as f64 / total_stake as f64 is not below
\* 1 / (max_streams_per_ms * STREAM_THROTTLING_INTERVAL_MS) as f64: for stake
\* and total_stake below 2^52 that is exactly when stake * max_streams_per_ms
\* * STREAM_THROTTLING_INTERVAL_MS >= total_stake, and for every u64 it is so
\* when the two sides differ by more than one part in 2^50.  A peer handed
\* on as Unstaked gets the unstaked table and the unstaked stream bound.
C30_StakedAtRatioInF64 ==
    Classified =>
        LET r == last_op.ret
            staked == r.params.peer_type.staked
            M == max_streams_per_ms * STREAM_THROTTLING_INTERVAL_MS
        IN  /\ (~r.found => r.params.peer_type = Unstaked
                               /\ r.params.remote_pubkey = NoPubkey)
            /\ (r.found /\ ~LimbsGeq(r.stake, U64(1, 52, 0))
                        /\ ~LimbsGeq(r.total_stake, U64(1, 52, 0))
                    => (staked <=> AtStakeRatio(r.stake, r.total_stake)))
            /\ (r.found /\ LimbsGeq(Times2_50(MulCarry(r.stake, M, 0)),
                                     Times2_50Plus1(r.total_stake))
                    => staked)
            /\ (r.found /\ ~LimbsGeq(Times2_50Plus1(MulCarry(r.stake, M, 0)),
                                      Times2_50(r.total_stake))
                    => ~staked)
            /\ (staked => r.params.peer_type = Staked(r.stake) /\ r.tbl = "staked")
            /\ (~staked => r.params.peer_type = Unstaked
                              /\ r.tbl = "unstaked"
                              /\ r.max_uni_streams = QUIC_MAX_UNSTAKED_CONCURRENT_STREAMS)

\* A peer with a stake in the snapshot is handed on as Unstaked.
C30_Witness ==
    /\ Classified
    /\ last_op.ret.found
    /\ ~IsZero(last_op.ret.stake)
    /\ ~last_op.ret.params.peer_type.staked
    /\ last_op.ret.tbl = "unstaked"

\* A peer with a stake entry exactly at the ratio is handed on as staked.
C30_WitnessAtRatio ==
    /\ Classified
    /\ last_op.ret.found
    /\ ~IsZero(last_op.ret.total_stake)
    /\ MulCarry(last_op.ret.stake,
                max_streams_per_ms * STREAM_THROTTLING_INTERVAL_MS, 0)
           = last_op.ret.total_stake
    /\ last_op.ret.params.peer_type.staked

\* A peer whose stake has no entry in the snapshot.
C30_WitnessNoEntry ==
    /\ Classified
    /\ last_op.ret.peer.pubkey # NoPubkey
    /\ ~last_op.ret.found
    /\ ~IsZero(last_op.ret.stake)

\* Above 2^53 a peer below the ratio is handed on as staked, and a peer at
\* the ratio as unstaked.
C30_WitnessRoundedUp ==
    /\ Classified
    /\ last_op.ret.found
    /\ ~AtStakeRatio(last_op.ret.stake, last_op.ret.total_stake)
    /\ last_op.ret.params.peer_type.staked

C30_WitnessRoundedDown ==
    /\ Classified
    /\ last_op.ret.found
    /\ AtStakeRatio(last_op.ret.stake, last_op.ret.total_stake)
    /\ ~last_op.ret.params.peer_type.staked

\* ----------------------------------------------------- claims on the keys

\* The entries of the two tables with their keys.
KeyedEntries ==
    UNION {UNION {{[key |-> t.table[i].key, e |-> t.table[i].conns[j]] :
                      j \in 1..Len(t.table[i].conns)} :
                    i \in 1..Len(t.table)} :
           t \in {staked_connection_table, unstaked_connection_table}}

ByAddress(peer) == [kind |-> "IP", id |-> peer.ip]
ByIdentity(peer) == [kind |-> "Pubkey", id |-> peer.pubkey]

\* The handler of a connection returns and leaves no entry of the
\* connection in a table: it looks for the entry under the key it was
\* inserted with.
RemovedUnderItsKey ==
    [][last_op'.op = "handle_connection"
          => /\ ~HasEntry(staked_connection_table', last_op'.ret.c)
             /\ ~HasEntry(unstaked_connection_table', last_op'.ret.c)
             /\ (last_op'.ret.outcome = "connection_removed"
                    <=> \/ HasEntry(staked_connection_table, last_op'.ret.c)
                        \/ HasEntry(unstaked_connection_table, last_op'.ret.c))]_vars

\* C31 as stated: the entry of every admitted peer whose certificate gave
\* a pubkey is under the key of the pubkey, whether or not the stake
\* snapshot has an entry for it, and that of a peer without one under the
\* key of its address.
C31_IdentityKeyedByPubkey ==
    \A k \in KeyedEntries :
        k.key = IF conn[k.e.connection].peer.pubkey # NoPubkey
                THEN ByIdentity(conn[k.e.connection].peer)
                ELSE ByAddress(conn[k.e.connection].peer)

\* C31: the entry of an admitted peer is under the key of its pubkey
\* exactly when the stake snapshot has an entry for the pubkey; a peer
\* without a certificate and a peer whose pubkey has no stake are under the
\* key of their address.  The handler removes the entry under the key it
\* was inserted with.
C31_KeyedByPubkeyWithStakeEntry ==
    /\ [](\A k \in KeyedEntries :
             /\ conn[k.e.connection].pc \notin {"idle", "done"}
             /\ k.key = IF conn[k.e.connection].peer.pubkey \in DOMAIN StakedNodes.stakes
                        THEN ByIdentity(conn[k.e.connection].peer)
                        ELSE ByAddress(conn[k.e.connection].peer))
    /\ RemovedUnderItsKey

\* The entry of a peer with a pubkey and no stake is under its address.
C31_Witness ==
    \E k \in KeyedEntries :
        /\ conn[k.e.connection].peer = NoStakePeer
        /\ k.key = ByAddress(NoStakePeer)

\* A peer with a stake entry that fell back to the unstaked table is under
\* its pubkey there, and its handler has removed it from there.
C31_WitnessStaked ==
    /\ last_op.op = "handle_connection"
    /\ last_op.ret.outcome = "connection_removed"
    /\ \E k \in KeyedEntries : k.key.kind = "Pubkey"
    /\ \E c \in DOMAIN conn : conn[c].pc = "handler" /\ conn[c].tbl = "unstaked"
                                /\ conn[c].peer.pubkey = "A"

\* ---- claims on a server with max_unstaked_connections = 0 ----

\* The step is setup task c passing the gates and reaching the unstaked
\* table: as an unstaked peer, or as a staked peer that finds the staked
\* table full and nothing to evict from it.
ReachesUnstakedTable(c) ==
    /\ conn[c].pc = "handshake"
    /\ last_op'.op = "setup_connection"
    /\ last_op'.ret.c = c
    /\ last_op'.ret.gates = GatesPassed
    /\ \/ ~HandlerParams(conn[c].peer).peer_type.staked
       \/ /\ HandlerParams(conn[c].peer).peer_type.staked
          /\ staked_connection_table.total_size >= max_staked_connections
          /\ staked_connection_table'.total_size = staked_connection_table.total_size
          /\ c \notin ConnectionsIn(staked_connection_table'.table)

\* C32: with max_unstaked_connections = 0 the unstaked table stays empty, and
\* every attempt that reaches it (an unstaked peer, or a staked peer falling
\* back from a full staked table) is closed with code 2, gets no handler and
\* gives its open-connection count back.
C32_UnstakedDisabled ==
    /\ [](max_unstaked_connections = 0 => unstaked_connection_table = NewTable)
    /\ [][\A c \in DOMAIN conn :
            (max_unstaked_connections = 0 /\ ReachesUnstakedTable(c))
            => (/\ last_op'.ret.close = CONNECTION_CLOSE_CODE_DISALLOWED
                /\ conn'[c] = DoneConn
                /\ open_connections' = open_connections - 1
                /\ \A d \in DOMAIN conn : conn'[d].pc = "handler" => conn[d].pc = "handler"
                /\ UNCHANGED << staked_connection_table, unstaked_connection_table >>)]_vars

\* An unstaked peer was just turned away as disallowed; the staked table is
\* in use beside it.
C32_Witness ==
    /\ max_unstaked_connections = 0
    /\ last_op.op = "setup_connection"
    /\ last_op.ret.outcome = "connection_add_failed_unstaked_node"
    /\ last_op.ret.close = CONNECTION_CLOSE_CODE_DISALLOWED
    /\ staked_connection_table.total_size > 0

\* A staked peer was just turned away as disallowed from a full staked table
\* of four connections, all of them still open.
C32_WitnessFallback ==
    /\ max_unstaked_connections = 0
    /\ last_op.op = "setup_connection"
    /\ last_op.ret.outcome = "connection_add_failed_staked_node"
    /\ last_op.ret.close = CONNECTION_CLOSE_CODE_DISALLOWED
    /\ staked_connection_table.total_size = 4
    /\ open_connections = 4

\* ---- claims on the batcher's coalescing ----

\* The step sends the batch on.
BatchSent ==
    /\ last_op'.op = "packet_batch_sender_send"
    /\ Len(batcher_test'.pkt_batch_receiver) = Len(batcher_test.pkt_batch_receiver) + 1

\* C33: the batcher sends a batch only when it holds PACKETS_PER_BATCH
\* packets, or when it is not empty and the coalescing time has passed since
\* its first packet was received; the batch it sends is never empty and
\* never holds more than PACKETS_PER_BATCH packets.  (batch_start_time is
\* the time the first packet of the batch was received, from there to the
\* batch's sending.)
C33_BatchFullOrCoalesced ==
    /\ [](Len(packet_batch) <= PACKETS_PER_BATCH)
    /\ [][(packet_batch = << >> /\ packet_batch' # << >>)
            => batcher_test'.batch_start_time = batcher_test.now]_vars
    /\ [][(packet_batch # << >> /\ ~BatchSent)
            => (/\ batcher_test'.batch_start_time = batcher_test.batch_start_time
                /\ SubSeq(packet_batch', 1, Len(packet_batch)) = packet_batch)]_vars
    /\ [][BatchSent
            => (/\ \/ Len(packet_batch) = PACKETS_PER_BATCH
                   \/ /\ packet_batch # << >>
                      /\ batcher_test.now - batcher_test.batch_start_time
                             >= batcher_test.coalesce
                /\ Len(packet_batch) \in 1..PACKETS_PER_BATCH
                /\ batcher_test'.pkt_batch_receiver
                       = Append(batcher_test.pkt_batch_receiver, packet_batch)
                /\ packet_batch' = << >>)]_vars

\* A batch short of PACKETS_PER_BATCH packets was just sent, two
\* milliseconds after its first packet was received, and a full batch had
\* been sent before it.
C33_Witness ==
    /\ last_op.op = "packet_batch_sender_send"
    /\ batcher_test.coalesce = 2
    /\ Len(batcher_test.pkt_batch_receiver) = 2
    /\ Len(batcher_test.pkt_batch_receiver[1]) = PACKETS_PER_BATCH
    /\ Len(batcher_test.pkt_batch_receiver[2]) < PACKETS_PER_BATCH
    /\ batcher_test.now = batcher_test.batch_start_time + 2
    /\ batcher_test.batch_start_time > 0

\* ---- claims on the two ways of pruning ----

\* C34: prune_oldest(N) evicts whole keys: a key that stays keeps all its
\* entries, every evicted key's oldest entry is no newer than any entry that
\* stays (an empty key goes first), no key is evicted once N entries or fewer
\* are left, and the value returned is the number of entries removed.  From
\* a table of more than N entries, one per key, exactly total - N are
\* removed.
C34_PruneOldestByKey ==
    [][\A N \in 0..MaxTableSize :
          (last_op'.op = "prune_oldest" /\ TablePruneOldest(N)) =>
             LET evicted == EvictedGroups(table.table, table'.table)
                 removed == SumOfLens(evicted)
             IN  /\ \A i \in 1..Len(table'.table) :
                       \E j \in 1..Len(table.table) : table.table[j] = table'.table[i]
                 /\ \A g \in 1..Len(evicted) :
                       evicted[g].conns # << >> =>
                          \A h \in 1..Len(table'.table) :
                             /\ table'.table[h].conns # << >>
                             /\ \E i \in 1..Len(evicted[g].conns) :
                                   SeqAll(table'.table[h].conns,
                                          LAMBDA r : evicted[g].conns[i].last_update
                                                         <= r.last_update)
                 /\ last_op'.ret = removed
                 /\ table'.total_size = table.total_size - removed
                 /\ SumOfLens(table'.table) = SumOfLens(table.table) - removed
                 /\ (table.total_size <= N => evicted = << >>)
                 /\ (evicted # << >> =>
                       \E g \in 1..Len(evicted) :
                          table'.total_size + Len(evicted[g].conns) > N)
                 /\ ((/\ table.total_size > N
                      /\ \A i \in 1..Len(table.table) : Len(table.table[i].conns) = 1)
                     => (last_op'.ret = table.total_size - N /\ table'.total_size = N))]_vars

\* From two keys of one entry each prune_oldest(1) has just removed one.
C34_Witness ==
    /\ last_op.op = "prune_oldest"
    /\ max_connections_per_peer = 1
    /\ last_op.ret = 1
    /\ Len(table.table) = 1
    /\ table.total_size = 1

\* prune_oldest has just removed a key of two entries and the key of one
\* entry beside it.
C34_WitnessGroups ==
    /\ last_op.op = "prune_oldest"
    /\ last_op.ret = 3
    /\ table = NewTable

\* What prune_random(samples, T) does to table t, given as r: it evicts at
\* most one key, whole, and returns its entry count; the key is a sampled
\* one whose stake (that of its first entry, None without entries) is below
\* T and is the lowest of the sampled keys'; it evicts nothing when no
\* sampled key's stake is below T.
EvictsLowestSampled(t, samples, T, r) ==
    LET evicted == EvictedGroups(t.table, r.t.table)
        sampled == {samples[i] : i \in 1..Len(samples)}
    IN  /\ Len(evicted) <= 1
        /\ Len(r.t.table) = Len(t.table) - Len(evicted)
        /\ \A i \in 1..Len(r.t.table) :
              \E j \in 1..Len(t.table) : t.table[j] = r.t.table[i]
        /\ r.ret = SumOfLens(evicted)
        /\ r.t.total_size = t.total_size - r.ret
        /\ IF \E i \in sampled : FirstStake(t.table[i].conns) < T
           THEN /\ Len(evicted) = 1
                /\ \E i \in sampled :
                      /\ t.table[i] = evicted[1]
                      /\ \A j \in sampled : FirstStake(t.table[i].conns)
                                               <= FirstStake(t.table[j].conns)
           ELSE evicted = << >>

\* C35: prune_random looks at the sampled keys only and evicts at most one
\* key, the lowest-stake sampled one, when its stake is below the threshold.
\* With at least one sample drawn from a table whose keys' stakes are all
\* below the threshold it evicts one key and returns its entry count; from
\* an empty table, or one whose keys' stakes are all at or above the
\* threshold, it returns 0 and leaves table and total_size as they were.
C35_PruneRandomLowestSampled ==
    \A sample_size \in 0..PRUNE_RANDOM_SAMPLE_SIZE, T \in Stakes \cup {0, 3} :
       \A samples \in Samples(Len(table.table), sample_size) :
          LET r == prune_random(table, samples, T)
              evicted == EvictedGroups(table.table, r.t.table)
          IN  /\ Len(samples) = IF table.table = << >> THEN 0 ELSE sample_size
              /\ EvictsLowestSampled(table, samples, T, r)
              /\ (/\ samples # << >>
                  /\ \A i \in 1..Len(table.table) : FirstStake(table.table[i].conns) < T)
                 => (Len(evicted) = 1 /\ r.ret = Len(evicted[1].conns))
              /\ (\/ table.table = << >>
                  \/ \A i \in 1..Len(table.table) : FirstStake(table.table[i].conns) >= T)
                 => (r.ret = 0 /\ r.t = table)

\* prune_random has just evicted one of two keys, a key of two entries, and
\* left the key whose entry has the higher stake.
C35_Witness ==
    /\ last_op.op = "prune_random"
    /\ last_op.ret = 2
    /\ Len(table.table) = 1
    /\ table.total_size = 1
    /\ EntryStake(table.table[1].conns[1]) = 2

\* prune_random has just returned 0 on a table of two keys.
C35_WitnessNothingEvicted ==
    /\ last_op.op = "prune_random"
    /\ last_op.ret = 0
    /\ Len(table.table) = 2
    /\ table.total_size = 2

\* ---- claims on the refusal at a key's cap ----

\* Table t2 holds what t holds, but for the groups evicted and for keys
\* without entries: every group of t2 with entries is a group of t, in t's
\* order, and total_size is lower by the evicted entries.
SameButEvicted(t, t2) ==
    LET evicted == EvictedGroups(t.table, t2.table)
    IN  /\ SelectSeq(t2.table, LAMBDA g : g.conns # << >>)
              = SelectSeq(t.table, LAMBDA g : g.conns # << >> /\ IndexOf(t2.table, g.key) # 0)
        /\ t2.total_size = t.total_size - SumOfLens(evicted)

\* C36: a try_add_connection refused at the key's cap leaves total_size and
\* every entry of the table as they were (the table itself when the cap is 1
\* or more); in the pipeline the refused connection is closed with code 4,
\* no handler is spawned for it, its count in open_connections is given back,
\* and the entries in the tables keep their connections and their tokens.
C36_RefusalChangesNothing ==
    /\ [](\A t \in {staked_connection_table, unstaked_connection_table},
             peer \in AllPeers, c \in DOMAIN conn :
             LET r == try_add_connection(t,
                          ConnectionTableKey_new(peer.ip, HandlerParams(peer).remote_pubkey),
                          ConnectionEntry(peer.port, 0, HandlerParams(peer).peer_type, c),
                          max_connections_per_peer)
             IN  ~r.added =>
                    /\ r.t.total_size = t.total_size
                    /\ EntriesOf(r.t.table) = EntriesOf(t.table)
                    /\ SubSeq(r.t.table, 1, Len(t.table)) = t.table
                    /\ (max_connections_per_peer >= 1 => r.t = t))
    /\ [][\A c \in DOMAIN conn :
            (/\ last_op'.op \in {"setup_connection",
                                 "prune_unstaked_connections_and_add_new_connection"}
             /\ last_op'.ret.c = c
             /\ last_op'.ret.close = CONNECTION_CLOSE_CODE_TOO_MANY)
            => (/\ conn'[c] = DoneConn
                /\ open_connections' = open_connections - 1 - last_op'.ret.pruned
                /\ SameButEvicted(staked_connection_table, staked_connection_table')
                /\ SameButEvicted(unstaked_connection_table, unstaked_connection_table')
                /\ c \notin ConnectionsIn(staked_connection_table'.table)
                /\ c \notin ConnectionsIn(unstaked_connection_table'.table)
                /\ \A d \in DOMAIN conn \ {c} :
                      /\ conn'[d].pc = conn[d].pc
                      /\ (d \in ConnectionsIn(staked_connection_table'.table)
                                   \cup ConnectionsIn(unstaked_connection_table'.table))
                         => conn'[d] = conn[d])]_vars

\* A connection was just refused at its key's cap of one entry: the entry
\* that was there is still there, its handler runs and its token is not
\* cancelled.
C36_Witness ==
    /\ max_connections_per_peer = 1
    /\ last_op.op = "setup_connection"
    /\ last_op.ret.close = CONNECTION_CLOSE_CODE_TOO_MANY
    /\ last_op.ret.pruned = 0
    /\ \E d \in DOMAIN conn :
          /\ d \in ConnectionsIn(staked_connection_table.table)
                      \cup ConnectionsIn(unstaked_connection_table.table)
          /\ conn[d].pc = "handler"
          /\ ~conn[d].cancelled
    /\ open_connections = 1

\* ---- claims on the tables' sizes ----

\* C37: with max_connections_per_peer >= 1, whatever the order of the
\* admissions and the handlers' returns, the staked table holds at most
\* max_staked_connections entries and the unstaked table at most
\* max_unstaked_connections, the staked peers' entries in it included (by
\* total_size and by count).
C37_TablesWithinLimits ==
    max_connections_per_peer >= 1 =>
       /\ staked_connection_table.total_size <= max_staked_connections
       /\ SumOfLens(staked_connection_table.table) <= max_staked_connections
       /\ unstaked_connection_table.total_size <= max_unstaked_connections
       /\ SumOfLens(unstaked_connection_table.table) <= max_unstaked_connections

\* Both tables are full, and every entry of the unstaked table is a staked
\* peer's that found the staked table full.
C37_Witness ==
    /\ max_connections_per_peer >= 1
    /\ max_staked_connections = 1
    /\ staked_connection_table.total_size = max_staked_connections
    /\ unstaked_connection_table.total_size = max_unstaked_connections
    /\ max_unstaked_connections = 2
    /\ SeqAll(EntriesOf(unstaked_connection_table.table), LAMBDA e : e.peer_type.staked)

\* ---- claims on the order of the locks ----

\* The task holds the guard of the staked table's Mutex.
HoldsStaked(c) ==
    \/ conn[c].pc \in {"staked_locked", "fallback", "fallback_locked"}
    \/ (conn[c].pc = "removing" /\ conn[c].tbl = "staked")

\* C38: the two table locks never deadlock.  Each Mutex has one holder at
\* most; a task awaits the unstaked table's lock holding the staked table's
\* only on the fallback and never awaits the staked table's lock holding the
\* other; a handler locks the one table its entry is in; and every task that
\* awaits a lock gets it.
C38_LocksNeverDeadlock ==
    /\ [](\A c \in LockConns :
             /\ (staked_lock = c) <=> HoldsStaked(c)
             /\ \A d \in LockConns : (HoldsUnstaked(c) /\ HoldsUnstaked(d)) => c = d
             /\ AwaitsLock(c) = "staked" => (~HoldsStaked(c) /\ ~HoldsUnstaked(c))
             /\ AwaitsLock(c) = "unstaked" =>
                   /\ ~HoldsUnstaked(c)
                   /\ HoldsStaked(c) <=> conn[c].pc = "fallback"
             /\ conn[c].pc = "removing" =>
                   /\ conn[c].tbl \in {"staked", "unstaked"}
                   /\ HoldsStaked(c) <=> conn[c].tbl = "staked"
                   /\ HoldsUnstaked(c) <=> conn[c].tbl = "unstaked")
    /\ \A c \in LockConns : (AwaitsLock(c) # "none") ~> (AwaitsLock(c) = "none")

\* A setup task awaits the unstaked table's lock holding the staked table's,
\* while a handler is inside remove_connection on the unstaked table and
\* another handler awaits the staked table's lock.
C38_Witness ==
    \E c, d, e \in LockConns :
       /\ conn[c].pc = "fallback"
       /\ staked_lock = c
       /\ unstaked_lock = d
       /\ conn[d].pc = "removing"
       /\ AwaitsLock(e) = "staked"

\* ---------------------------------------------------------------- C39

\* The streams a handler is reading: taken by accept_uni and not yet ended.
StreamsBeingRead == {c \in DOMAIN conn : conn[c].pc = "stream"}

\* C39: total_streams goes up by one when a stream is taken for reading
\* and down by one on every way the stream ends (finished, empty, invalid,
\* read timeout, read error, cancellation), total_connections goes up by
\* one when a handler starts and down by one when it returns, and no step
\* changes either otherwise; so total_streams is the number of streams
\* being read and total_connections the number of handlers running, and
\* both are 0 when no stream is being read and no handler runs.
C39_CountersBalance ==
    /\ [](/\ total_streams = Cardinality(StreamsBeingRead)
          /\ total_connections = Cardinality(RunningHandlers)
          /\ (StreamsBeingRead = {} /\ RunningHandlers = {}) =>
                 (total_streams = 0 /\ total_connections = 0))
    /\ [][LET taken == StreamsBeingRead' \ StreamsBeingRead
              ended == StreamsBeingRead \ StreamsBeingRead'
              started == RunningHandlers' \ RunningHandlers
              exited == RunningHandlers \ RunningHandlers'
          IN  /\ Cardinality(taken) + Cardinality(ended) <= 1
              /\ Cardinality(started) + Cardinality(exited) <= 1
              /\ total_streams' = total_streams + Cardinality(taken)
                                                - Cardinality(ended)
              /\ total_connections' = total_connections + Cardinality(started)
                                                        - Cardinality(exited)
              /\ ended # {} =>
                    /\ last_op'.op \in {"read_chunks", "read_chunks_failed",
                                        "read_chunks_cancelled"}
                    /\ last_op'.ret.state \in
                          {"Finished", "Err", "total_stream_read_errors",
                           "total_stream_read_timeouts", "cancelled"}]_vars

\* C39 witness: a handler gives up an invalid stream and returns in the
\* same step, while no other handler runs: both counters are back at 0.
C39_Witness ==
    /\ last_op.op = "read_chunks"
    /\ last_op.ret.state = "Err"
    /\ conn[1].pc = "done"
    /\ StreamsBeingRead = {}
    /\ RunningHandlers = {}
    /\ total_streams = 0
    /\ total_connections = 0

\* C39 witness: a stream ended by the cancellation of its entry's token
\* while the handler of the evicting connection runs beside its own.
C39_WitnessCancelled ==
    /\ last_op.op = "read_chunks_cancelled"
    /\ total_streams = 0
    /\ total_connections = 2

\* ---------------------------------------------------------------- C40

====
